---- MODULE Spec2Model ----
(***************************************************************************)
(* Verification model of the NFC firmware: the command scheduler           *)
(* (NFCTask::NFCTaskManager), the NFC manager (NFC::NFCManager), and the   *)
(* status-level behaviour of the reader-chip controller (NFC::ST25R3911B). *)
(*                                                                         *)
(* Tasks of the model:                                                     *)
(*   "app"      an application task calling the scheduler's public API     *)
(*   "consumer" the task created by NFCTaskManager::Initialize, running    *)
(*              taskMainLoop; result callbacks run on it                   *)
(*   "isr"      interrupt context (EXTI line of the reader chip)           *)
(***************************************************************************)
EXTENDS Integers, Sequences, FiniteSets, TLC

(***************************************************************************)
(* Bounds of the model.                                                    *)
(***************************************************************************)
\* NFCTaskConfig::commandQueueSize, a configuration input (default 10).
CommandQueueSize == 2
\* NFCTaskConfig::responseQueueSize, a configuration input (default 10).
ResponseQueueSize == 1
\* Number of public enqueue calls (helpers and SendCommand) of the
\* application task that get past their initialization check; a result
\* callback makes one more call each time it runs.
MaxCalls == 3
\* Cap of the consumer task's notification value.
MaxNotify == 1

(***************************************************************************)
(* Program constants.                                                      *)
(***************************************************************************)
REG_IO_CONF1 == 0
REG_OP_CONTROL == 2
REG_MODE == 3
REG_BIT_RATE == 4
REG_ISO14443A_NFC == 5
REG_ISO14443B == 6
REG_STREAM_MODE == 7
REG_P2P_RX_CONF == 13
REG_IC_IDENTITY == 39
REG_IRQ_MAIN == 54
REG_IRQ_TIMER_NFC == 55
REG_IRQ_ERROR_WUP == 56
REG_IRQ_MASK_MAIN == 58
REG_IRQ_MASK_TIMER_NFC == 59
REG_IRQ_MASK_ERROR_WUP == 60
REG_FIFO_DATA == 63
FirstDirectCommand == 192
CMD_SET_DEFAULT == 193
CMD_CLEAR_FIFO == 194
FirstRequestId == 1

\* ST25R3911B::IC_IDENTITY_VALUE and IC_TYPE_MASK
IC_IDENTITY_VALUE == 9

IC_TYPE_MASK == 31

\* NFCConfig::timeoutMs as App_init sets it.
ConfiguredTimeoutMs == 1000

\* Largest value of a uint8_t.
MaxByte == 255

(***************************************************************************)
(* Enumerations.                                                           *)
(***************************************************************************)
\* NFC::NFCStatus values the scheduler layer can see.
NFCStatus ==
    {"OK", "ERROR", "TIMEOUT", "INVALID_PARAM", "NOT_INITIALIZED",
     "FIFO_OVERFLOW", "FIFO_UNDERFLOW", "CRC_ERROR", "COLLISION_ERROR",
     "NO_TAG_FOUND", "UNSUPPORTED_TAG", "COMMUNICATION_ERROR"}

\* SPI::SPIStatus values of one bus exchange.
SPIStatus == {"OK", "TIMEOUT", "INVALID_PARAM", "ERROR"}

\* NFCTask::NFCCommand: every enumerator.
NFCCommand ==
    {"INITIALIZE", "DEINITIALIZE", "START_DETECTION", "STOP_DETECTION",
     "READ_TAG", "WRITE_TAG", "READ_UID", "READ_TEXT", "READ_URI",
     "READ_WIFI", "WRITE_TEXT", "WRITE_URI", "WRITE_WIFI", "WRITE_URL",
     "WRITE_EMAIL", "WRITE_PHONE", "FORMAT_TAG", "SET_FIELD", "GET_STATUS"}

\* NFCTask::NFCPriority, by enumerator value.
NFCPriority == [LOW |-> 0, NORMAL |-> 1, HIGH |-> 2, URGENT |-> 3]

\* The public helpers of NFCTaskManager that build and enqueue a command.
Helpers ==
    {"StartTagDetection", "StopTagDetection", "ReadText", "WriteText",
     "WriteURL", "WriteWiFi", "SetField"}

\* Command kind each helper puts into the command it builds.
HelperCommand ==
    [StartTagDetection |-> "START_DETECTION",
     StopTagDetection  |-> "STOP_DETECTION",
     ReadText          |-> "READ_TEXT",
     WriteText         |-> "WRITE_TEXT",
     WriteURL          |-> "WRITE_URL",
     WriteWiFi         |-> "WRITE_WIFI",
     SetField          |-> "SET_FIELD"]

\* Priority each helper puts into the command it builds.
HelperPriority ==
    [StartTagDetection |-> NFCPriority.HIGH,
     StopTagDetection  |-> NFCPriority.HIGH,
     ReadText          |-> NFCPriority.NORMAL,
     WriteText         |-> NFCPriority.NORMAL,
     WriteURL          |-> NFCPriority.NORMAL,
     WriteWiFi         |-> NFCPriority.NORMAL,
     SetField          |-> NFCPriority.HIGH]

\* Helpers that take a result callback; the others leave command.callback empty.
HelperTakesCallback == {"ReadText", "WriteText", "WriteURL", "WriteWiFi"}

(***************************************************************************)
(* Result callbacks a caller can pass:                                     *)
(*   "none"      an empty std::function                                    *)
(*   "plain"     a callback that makes no scheduler call                   *)
(*   "resubmit"  a callback that calls ReadText on the scheduler           *)
(***************************************************************************)
Callbacks == {"none", "plain", "resubmit"}

\* Helpers the application task calls in the model, one of each priority,
\* and the result callbacks it passes to ReadText.
AppHelpers == {"SetField", "ReadText"}

AppCallbacks == {"none", "resubmit"}

\* Argument of SetField in the model.
AppFields == {"ON"}

\* The tasks that call the public enqueue API.
Callers == {"app", "consumer"}

(***************************************************************************)
(* Controller (NFC::ST25R3911B), at the level of statuses.                 *)
(*                                                                         *)
(* A controller value is a record                                          *)
(*   [initialized, fieldState, currentProtocol, interruptPending].         *)
(* Every operation takes the controller value and the status s that the    *)
(* bus master returns for the exchanges of this call, and yields           *)
(*   [status, ctl, bus]                                                    *)
(* where bus tells whether a bus transaction was made (slave-select        *)
(* asserted, bytes exchanged).                                             *)
(***************************************************************************)
\* NFC::NFCField: every enumerator.
NFCField == {"OFF", "ON"}

\* NFC::NFCProtocol
NFCProtocol == {"NFC_A", "NFC_B", "NFC_F", "NFC_V", "NFC_P2P", "MIFARE_CLASSIC"}

\* Result of a controller call that made no bus transaction.
NoBus(st, c) == [status |-> st, ctl |-> c, bus |-> FALSE]

\* Result r of a step that follows steps which did use the bus.
AfterBus(r) == [r EXCEPT !.bus = TRUE]

\* ST25R3911B::convertSpiStatus
convertSpiStatus(s) ==
    CASE s = "OK" -> "OK"
      [] s = "TIMEOUT" -> "TIMEOUT"
      [] s = "INVALID_PARAM" -> "INVALID_PARAM"
      [] OTHER -> "COMMUNICATION_ERROR"

\* A check that lets every address through.
AnyRegisterValid(reg) == TRUE

\* ST25R3911B::isValidRegister
isValidRegister(reg) == reg <= REG_FIFO_DATA

\* ST25R3911B::isValidCommand
isValidCommand(cmd) == cmd >= FirstDirectCommand

\* Bitwise AND of two naturals.
RECURSIVE BitAnd(_, _)
BitAnd(a, b) ==
    IF a = 0 \/ b = 0 THEN 0
    ELSE (a % 2) * (b % 2) + 2 * BitAnd(a \div 2, b \div 2)

\* a | b on bytes
BitOr(a, b) == a + b - BitAnd(a, b)

\* static_cast<uint8_t>(n)
ByteOf(n) == n % (MaxByte + 1)

SPI_CMD_READ == 64
SPI_CMD_WRITE == 0

\* One bus transaction: SelectSlave, the bytes handed to the bus master in
\* one Transmit or TransmitReceive, DeselectSlave.
Transaction(bytes) == [select |-> TRUE, bytes |-> bytes, deselect |-> TRUE]

\* The transaction of ReadRegister(reg): { reg | SPI_CMD_READ, 0x00 }
ReadFrame(reg) == Transaction(<<BitOr(reg, SPI_CMD_READ), 0>>)

\* The transaction of WriteRegister(reg, value): { reg | SPI_CMD_WRITE, value }
WriteFrame(reg, value) == Transaction(<<BitOr(reg, SPI_CMD_WRITE), value>>)

\* The transaction of ExecuteCommand(cmd): { cmd }
CommandFrame(cmd) == Transaction(<<cmd>>)

\* The transactions a call made: frames when it used the bus, none otherwise.
WireOf(r, frames) == IF r.bus THEN frames ELSE <<>>

\* ST25R3911B::ExecuteCommand
ExecuteCommand(c, cmd, s) ==
    IF ~c.initialized \/ ~isValidCommand(cmd)
    THEN NoBus("INVALID_PARAM", c)
    ELSE [status |-> convertSpiStatus(s), ctl |-> c, bus |-> TRUE]

\* ST25R3911B::ReadRegister (the byte read is not part of this level)
ReadRegister(c, reg, s) ==
    IF ~c.initialized \/ ~isValidRegister(reg)
    THEN NoBus("INVALID_PARAM", c)
    ELSE [status |-> convertSpiStatus(s), ctl |-> c, bus |-> TRUE]

\* ST25R3911B::WriteRegister
WriteRegister(c, reg, s) ==
    IF ~c.initialized \/ ~isValidRegister(reg)
    THEN NoBus("INVALID_PARAM", c)
    ELSE [status |-> convertSpiStatus(s), ctl |-> c, bus |-> TRUE]

\* ST25R3911B::ModifyRegister: read, then write unless the read failed
ModifyRegister(c, reg, s) ==
    LET rd == ReadRegister(c, reg, s)
    IN  IF rd.status # "OK" THEN rd ELSE AfterBus(WriteRegister(c, reg, s))

\* The loop of ReadRegisters (access = "read") and of WriteRegisters
\* ("write") from its i-th pass on: the address startReg + i is cut to a
\* byte when it is passed; bus tells whether an earlier pass used the bus.
RECURSIVE RegisterLoop(_, _, _, _, _, _, _)
RegisterLoop(access, c, startReg, length, i, bus, s) ==
    LET reg == ByteOf(startReg + i)
        r == IF access = "read" THEN ReadRegister(c, reg, s)
             ELSE WriteRegister(c, reg, s)
    IN  IF i >= length THEN [status |-> "OK", ctl |-> c, bus |-> bus]
        ELSE IF r.status # "OK" THEN [r EXCEPT !.bus = bus \/ r.bus]
        ELSE RegisterLoop(access, c, startReg, length, i + 1, TRUE, s)

\* ST25R3911B::ReadRegisters(startReg, data, length)
ReadRegisters(c, startReg, length, s) ==
    IF ~c.initialized \/ ~isValidRegister(startReg) \/ length = 0
    THEN NoBus("INVALID_PARAM", c)
    ELSE RegisterLoop("read", c, startReg, length, 0, FALSE, s)

\* ST25R3911B::WriteRegisters(startReg, data), length = data.size()
WriteRegisters(c, startReg, length, s) ==
    IF ~c.initialized \/ ~isValidRegister(startReg) \/ length = 0
    THEN NoBus("INVALID_PARAM", c)
    ELSE RegisterLoop("write", c, startReg, length, 0, FALSE, s)

\* ST25R3911B::SetField
CtlSetField(c, field, s) ==
    IF field = "ON"
    THEN LET m1 == ModifyRegister(c, REG_OP_CONTROL, s)
             m2 == ModifyRegister(c, REG_MODE, s)
         IN  IF m1.status # "OK" THEN m1
             ELSE IF m2.status # "OK" THEN AfterBus(m2)
             ELSE [status |-> "OK",
                   ctl |-> [c EXCEPT !.fieldState = "ON"], bus |-> TRUE]
    ELSE LET m1 == ModifyRegister(c, REG_MODE, s)
             m2 == ModifyRegister(c, REG_OP_CONTROL, s)
         IN  IF m1.status # "OK" THEN m1
             ELSE [status |-> m2.status,
                   ctl |-> [c EXCEPT !.fieldState = "OFF"], bus |-> TRUE]

\* The protocol-specific register configureProtocol writes first.
ProtocolRegister(protocol) ==
    CASE protocol = "NFC_A" -> REG_ISO14443A_NFC
      [] protocol = "NFC_B" -> REG_ISO14443B
      [] protocol = "NFC_F" -> REG_BIT_RATE
      [] protocol = "NFC_V" -> REG_STREAM_MODE
      [] protocol = "NFC_P2P" -> REG_P2P_RX_CONF
      [] protocol = "MIFARE_CLASSIC" -> REG_ISO14443A_NFC

\* ST25R3911B::configureProtocol
configureProtocol(c, protocol, s) ==
    IF protocol \notin NFCProtocol THEN NoBus("INVALID_PARAM", c)
    ELSE LET w == WriteRegister(c, ProtocolRegister(protocol), s)
         IN  IF w.status # "OK" THEN w
             ELSE AfterBus(ModifyRegister(c, REG_MODE, s))

\* ST25R3911B::SetProtocol
SetProtocol(c, protocol, s) ==
    LET r == configureProtocol(c, protocol, s)
    IN  IF r.status = "OK"
        THEN [r EXCEPT !.ctl = [c EXCEPT !.currentProtocol = protocol]]
        ELSE r

\* ST25R3911B::ClearInterrupts
ClearInterrupts(c, s) ==
    LET w1 == WriteRegister(c, REG_IRQ_MAIN, s)
        w2 == WriteRegister(c, REG_IRQ_TIMER_NFC, s)
    IN  IF w1.status # "OK" THEN w1
        ELSE IF w2.status # "OK" THEN AfterBus(w2)
        ELSE AfterBus(WriteRegister(c, REG_IRQ_ERROR_WUP, s))

\* ST25R3911B::SetInterruptMasks
SetInterruptMasks(c, s) ==
    LET w1 == WriteRegister(c, REG_IRQ_MASK_MAIN, s)
        w2 == WriteRegister(c, REG_IRQ_MASK_TIMER_NFC, s)
    IN  IF w1.status # "OK" THEN w1
        ELSE IF w2.status # "OK" THEN AfterBus(w2)
        ELSE AfterBus(WriteRegister(c, REG_IRQ_MASK_ERROR_WUP, s))

\* ST25R3911B::ClearFifo
ClearFifo(c, s) == ExecuteCommand(c, CMD_CLEAR_FIFO, s)

\* ST25R3911B::Reset
Reset(c, s) ==
    LET e == ExecuteCommand(c, CMD_SET_DEFAULT, s)
        f == ClearFifo(c, s)
    IN  IF e.status # "OK" THEN e
        ELSE IF f.status # "OK" THEN AfterBus(f)
        ELSE AfterBus(ClearInterrupts(c, s))

\* ST25R3911B::GetIdentity
GetIdentity(c, s) == ReadRegister(c, REG_IC_IDENTITY, s)

\* ST25R3911B::configureDefaults
configureDefaults(c, s) ==
    LET w == WriteRegister(c, REG_OP_CONTROL, s)
        k == SetInterruptMasks(c, s)
    IN  IF w.status # "OK" THEN w
        ELSE IF k.status # "OK" THEN AfterBus(k)
        ELSE AfterBus(WriteRegister(c, REG_IO_CONF1, s))

\* ST25R3911B::Initialize.  spiUp is SPIMaster::IsInitialized of the
\* configured bus master, idOk tells whether the identity byte read back,
\* masked with IC_TYPE_MASK, equals IC_IDENTITY_VALUE, defaultProtocol is
\* NFCConfig::defaultProtocol.
CtlInitialize(c, spiUp, idOk, defaultProtocol, s) ==
    LET rs == Reset(c, s)
        id == GetIdentity(c, s)
        cd == configureDefaults(c, s)
        sp == SetProtocol(c, defaultProtocol, s)
    IN  IF c.initialized THEN NoBus("OK", c)
        ELSE IF ~spiUp THEN NoBus("NOT_INITIALIZED", c)
        ELSE IF rs.status # "OK" THEN rs
        ELSE IF id.status # "OK" THEN AfterBus(id)
        ELSE IF ~idOk THEN [status |-> "ERROR", ctl |-> c, bus |-> TRUE]
        ELSE IF cd.status # "OK" THEN AfterBus(cd)
        ELSE IF sp.status # "OK" THEN AfterBus(sp)
        ELSE [status |-> "OK",
              ctl |-> [sp.ctl EXCEPT !.initialized = TRUE], bus |-> TRUE]

\* The timeout budget of Receive: the configured default when 0 is passed
\* (lines 460-462).
ReceiveBudget(timeoutMs) ==
    IF timeoutMs = 0 THEN ConfiguredTimeoutMs ELSE timeoutMs

\* ST25R3911B::waitForInterrupt on controller c with the budget given: the
\* interrupt is seen when the pending flag is up at the call or
\* HandleInterrupt runs at a time, counted from the call, below the budget.
InterruptSeen(c, budget, at) == c.interruptPending \/ at < budget

\* ST25R3911B::Receive(data, timeoutMs).  at is the time at which
\* HandleInterrupt runs, irq the flag the main interrupt register then shows
\* ("COL", "RXE" or "none"), fifoBytes the FIFO fill level, s the status of
\* the bus exchanges.  bytes is the number of bytes put into data (0: data
\* is left as it was).
CtlReceive(c, timeoutMs, at, irq, fifoBytes, s) ==
    LET c1 == [c EXCEPT !.interruptPending = FALSE]
        st == convertSpiStatus(s)
    IN  IF ~c.initialized
        THEN [status |-> "NOT_INITIALIZED", ctl |-> c, bus |-> FALSE,
              bytes |-> 0]
        ELSE IF ~InterruptSeen(c, ReceiveBudget(timeoutMs), at)
        THEN [status |-> "TIMEOUT", ctl |-> c, bus |-> FALSE, bytes |-> 0]
        ELSE IF st # "OK"
        THEN [status |-> st, ctl |-> c1, bus |-> TRUE, bytes |-> 0]
        ELSE IF irq = "COL"
        THEN [status |-> "COLLISION_ERROR", ctl |-> c1, bus |-> TRUE,
              bytes |-> 0]
        ELSE IF irq = "RXE"
        THEN [status |-> "OK", ctl |-> c1, bus |-> TRUE, bytes |-> fifoBytes]
        ELSE [status |-> "TIMEOUT", ctl |-> c1, bus |-> TRUE, bytes |-> 0]

\* ST25R3911B::Transmit(data, crc) of len bytes: ClearFifo, WriteFifo and
\* the transmit command, each of which the controller refuses while it is
\* not initialized.
CtlTransmit(c, len, s) ==
    IF ~c.initialized \/ len = 0 THEN NoBus("INVALID_PARAM", c)
    ELSE [status |-> convertSpiStatus(s), ctl |-> c, bus |-> TRUE]

\* ST25R3911B::TransmitReceive(txData, rxData, timeoutMs)
CtlTransmitReceive(c, len, timeoutMs, at, irq, fifoBytes, s) ==
    LET tx == CtlTransmit(c, len, s)
        rx == CtlReceive(c, timeoutMs, at, irq, fifoBytes, s)
    IN  IF tx.status # "OK"
        THEN [status |-> tx.status, ctl |-> tx.ctl, bus |-> tx.bus,
              bytes |-> 0]
        ELSE [rx EXCEPT !.bus = TRUE]

\* ST25R3911B::Deinitialize
CtlDeinitialize(c, s) ==
    IF ~c.initialized THEN NoBus("OK", c)
    ELSE [status |-> "OK",
          ctl |-> [CtlSetField(c, "OFF", s).ctl EXCEPT !.initialized = FALSE],
          bus |-> TRUE]

(***************************************************************************)
(* NFC manager (NFC::NFCManager) and the tag reader/writer entry points    *)
(* the scheduler calls.  A manager value is a record                       *)
(*   [initialized, detectionActive, detectionCallback]                     *)
(* (detectionCallback: whether NFCManager::_detectionCallback is set).     *)
(* Every operation yields [status, mgr, ctl, bus].                         *)
(***************************************************************************)
\* Result of a manager call from the controller result r it ends with.
MgrResult(m, r) == [status |-> r.status, mgr |-> m, ctl |-> r.ctl, bus |-> r.bus]

\* NFCManager::Initialize
MgrInitialize(m, c, spiUp, idOk, defaultProtocol, s) ==
    LET r == CtlInitialize(c, spiUp, idOk, defaultProtocol, s)
    IN  IF m.initialized THEN MgrResult(m, NoBus("ERROR", c))
        ELSE IF r.status # "OK" THEN MgrResult(m, r)
        ELSE MgrResult([m EXCEPT !.initialized = TRUE], r)

\* NFCManager::StopTagDetection
MgrStopTagDetection(m, c, s) ==
    IF ~m.detectionActive THEN MgrResult(m, NoBus("OK", c))
    ELSE MgrResult([m EXCEPT !.detectionActive = FALSE,
                             !.detectionCallback = FALSE],
                   CtlSetField(c, "OFF", s))

\* NFCManager::Deinitialize
MgrDeinitialize(m, c, s) ==
    IF ~m.initialized THEN MgrResult(m, NoBus("OK", c))
    ELSE LET st == MgrStopTagDetection(m, c, s)
             de == CtlDeinitialize(st.ctl, s)
         IN  [status |-> "OK",
              mgr |-> [st.mgr EXCEPT !.initialized = FALSE],
              ctl |-> de.ctl,
              bus |-> st.bus \/ de.bus]

\* NFCManager::StartTagDetection
MgrStartTagDetection(m, c, s) ==
    LET on == CtlSetField(c, "ON", s)
        pr == SetProtocol(on.ctl, "NFC_A", s)
        m1 == [m EXCEPT !.detectionCallback = TRUE]
    IN  IF ~m.initialized \/ m.detectionActive
        THEN MgrResult(m, NoBus("ERROR", c))
        ELSE IF on.status # "OK" THEN MgrResult(m1, on)
        ELSE IF pr.status # "OK" THEN MgrResult(m1, AfterBus(pr))
        ELSE MgrResult([m1 EXCEPT !.detectionActive = TRUE], AfterBus(pr))

\* NFCManager::SetField
MgrSetField(m, c, field, s) ==
    IF ~m.initialized THEN MgrResult(m, NoBus("NOT_INITIALIZED", c))
    ELSE MgrResult(m, CtlSetField(c, field, s))

\* NFCManager::identifyTag on a response of the given number of bytes.
IdentifyTagStatus(bytes) == IF bytes < 2 THEN "ERROR" ELSE "OK"

\* NFCManager::handleTagDetection: the REQA frame is sent with a budget of
\* 100 ms and, when the answer of at least 2 bytes is classified, the
\* detection callback is invoked.  Yields whether it was invoked.
MgrHandleTagDetection(m, c, at, irq, fifoBytes, s) ==
    LET x == CtlTransmitReceive(c, 1, 100, at, irq, fifoBytes, s)
    IN  IF ~m.detectionActive \/ ~m.detectionCallback
        THEN [invoked |-> FALSE, ctl |-> c, bus |-> FALSE]
        ELSE [invoked |-> /\ x.status = "OK"
                          /\ x.bytes >= 2
                          /\ IdentifyTagStatus(x.bytes) = "OK",
              ctl |-> x.ctl, bus |-> x.bus]

\* Statuses a tag exchange can end with once the controller is up.
TagOutcomes ==
    {"OK", "ERROR", "TIMEOUT", "INVALID_PARAM", "COLLISION_ERROR",
     "UNSUPPORTED_TAG", "COMMUNICATION_ERROR"}

\* TagReader::ReadText on the scheduler's path: ReadNDEF, ReadRawData.  With
\* the controller up, the outcome o of the tag exchange decides.
ReaderReadText(m, c, o) ==
    IF ~c.initialized THEN MgrResult(m, NoBus("NOT_INITIALIZED", c))
    ELSE [status |-> o, mgr |-> m, ctl |-> c, bus |-> TRUE]

\* TagWriter::WriteText, WriteURL, WriteWiFi, FormatTag on the scheduler's
\* path: the record is encoded, then WriteRawData is called.
WriterWrite(m, c, o) ==
    IF ~c.initialized THEN MgrResult(m, NoBus("NOT_INITIALIZED", c))
    ELSE [status |-> o, mgr |-> m, ctl |-> c, bus |-> TRUE]

(***************************************************************************)
(* Environment of the scheduler as App_init sets it up.                    *)
(***************************************************************************)
\* SPIMaster's constructor calls Init, which succeeds on a fresh object.
SpiMasterInitialized == TRUE

\* NFCConfig::defaultProtocol as App_init sets it.
DefaultProtocol == "NFC_A"

(***************************************************************************)
(* The NDEF record codec of TagWriter and TagReader.  A string or a byte   *)
(* vector is a sequence of byte values (a character is its ASCII code); a  *)
(* record is [type, payload, rawData, language, mimeType].                 *)
(***************************************************************************)
TNF_WELL_KNOWN == 1
TNF_MIME == 2
TNF_MASK == 7
FLAG_MB == 128
FLAG_ME == 64
FLAG_IL == 8
LANG_LENGTH_MASK == 63

TypeText == <<84>>      \* "T"
TypeUri == <<85>>       \* "U"
TypeWifi == <<97, 112, 112, 108, 105, 99, 97, 116, 105, 111, 110, 47, 118, 110, 100, 46, 119, 102, 97, 46, 119, 115, 99>>
    \* "application/vnd.wfa.wsc"
TypeVCard == <<116, 101, 120, 116, 47, 118, 99, 97, 114, 100>>
    \* "text/vcard"

\* uri.substr(0, strlen(p)) == p
HasPrefix(s, p) == Len(s) >= Len(p) /\ SubSeq(s, 1, Len(p)) = p

\* s.substr(n)
SubstrFrom(s, n) == SubSeq(s, n + 1, Len(s))

\* TagWriter::getURIPrefix: the prefixes it tests, in its order; the code of
\* a prefix is its position.
CodedPrefixes ==
    << <<104, 116, 116, 112, 58, 47, 47, 119, 119, 119, 46>>,   \* "http://www."
       <<104, 116, 116, 112, 115, 58, 47, 47, 119, 119, 119, 46>>,   \* "https://www."
       <<104, 116, 116, 112, 58, 47, 47>>,   \* "http://"
       <<104, 116, 116, 112, 115, 58, 47, 47>>,   \* "https://"
       <<116, 101, 108, 58>>,   \* "tel:"
       <<109, 97, 105, 108, 116, 111, 58>> >>   \* "mailto:"

\* TagWriter::getURIPrefix
getURIPrefix(uri) ==
    LET hits == {i \in 1..Len(CodedPrefixes) : HasPrefix(uri, CodedPrefixes[i])}
    IN  IF hits = {} THEN 0
        ELSE CHOOSE i \in hits : \A j \in hits : i <= j

\* The prefixes the URI case of createNDEFRecord removes from the payload.
RemovedPrefixes == SubSeq(CodedPrefixes, 1, 4)

\* The URI case of createNDEFRecord: the first prefix of its table the URI
\* starts with is removed.
RemovePrefix(uri) ==
    LET hits == {i \in 1..Len(RemovedPrefixes) :
                    HasPrefix(uri, RemovedPrefixes[i])}
        first == CHOOSE i \in hits : \A j \in hits : i <= j
    IN  IF hits = {} THEN uri
        ELSE SubstrFrom(uri, Len(RemovedPrefixes[first]))

\* The prefix table of the URI case of parseNDEFRecord; the entry of code n
\* is at position n + 1.
ParsedPrefixes ==
    << <<>>,   \* ""
       <<104, 116, 116, 112, 58, 47, 47, 119, 119, 119, 46>>,   \* "http://www."
       <<104, 116, 116, 112, 115, 58, 47, 47, 119, 119, 119, 46>>,   \* "https://www."
       <<104, 116, 116, 112, 58, 47, 47>>,   \* "http://"
       <<104, 116, 116, 112, 115, 58, 47, 47>>,   \* "https://"
       <<116, 101, 108, 58>>,   \* "tel:"
       <<109, 97, 105, 108, 116, 111, 58>>,   \* "mailto:"
       <<102, 116, 112, 58, 47, 47, 97, 110, 111, 110, 121, 109, 111, 117, 115, 58, 97, 110, 111, 110, 121, 109, 111, 117, 115, 64>>,   \* "ftp://anonymous:anonymous@"
       <<102, 116, 112, 58, 47, 47, 102, 116, 112, 46>>,   \* "ftp://ftp."
       <<102, 116, 112, 115, 58, 47, 47>>,   \* "ftps://"
       <<115, 102, 116, 112, 58, 47, 47>>,   \* "sftp://"
       <<115, 109, 98, 58, 47, 47>>,   \* "smb://"
       <<110, 102, 115, 58, 47, 47>>,   \* "nfs://"
       <<102, 116, 112, 58, 47, 47>>,   \* "ftp://"
       <<100, 97, 118, 58, 47, 47>>,   \* "dav://"
       <<110, 101, 119, 115, 58>>,   \* "news:"
       <<116, 101, 108, 110, 101, 116, 58, 47, 47>>,   \* "telnet://"
       <<105, 109, 97, 112, 58>>,   \* "imap:"
       <<114, 116, 115, 112, 58, 47, 47>>,   \* "rtsp://"
       <<117, 114, 110, 58>>,   \* "urn:"
       <<112, 111, 112, 58>>,   \* "pop:"
       <<115, 105, 112, 58>>,   \* "sip:"
       <<115, 105, 112, 115, 58>>,   \* "sips:"
       <<116, 102, 116, 112, 58>>,   \* "tftp:"
       <<98, 116, 115, 112, 112, 58, 47, 47>>,   \* "btspp://"
       <<98, 116, 108, 50, 99, 97, 112, 58, 47, 47>>,   \* "btl2cap://"
       <<98, 116, 103, 111, 101, 112, 58, 47, 47>>,   \* "btgoep://"
       <<116, 99, 112, 111, 98, 101, 120, 58, 47, 47>>,   \* "tcpobex://"
       <<105, 114, 100, 97, 111, 98, 101, 120, 58, 47, 47>>,   \* "irdaobex://"
       <<102, 105, 108, 101, 58, 47, 47>>,   \* "file://"
       <<117, 114, 110, 58, 101, 112, 99, 58, 105, 100, 58>>,   \* "urn:epc:id:"
       <<117, 114, 110, 58, 101, 112, 99, 58, 116, 97, 103, 58>>,   \* "urn:epc:tag:"
       <<117, 114, 110, 58, 101, 112, 99, 58, 112, 97, 116, 58>>,   \* "urn:epc:pat:"
       <<117, 114, 110, 58, 101, 112, 99, 58, 114, 97, 119, 58>>,   \* "urn:epc:raw:"
       <<117, 114, 110, 58, 101, 112, 99, 58>>,   \* "urn:epc:"
       <<117, 114, 110, 58, 110, 102, 99, 58>> >>   \* "urn:nfc:"

\* "NDEFRecord record;": the strings are empty, the type is not set.
NewRecord ==
    [type |-> "INDETERMINATE", payload |-> <<>>, rawData |-> <<>>,
     language |-> <<>>, mimeType |-> <<>>]

\* TagWriter::createNDEFRecord: the type-name-format, type string and
\* payload of a record of each kind.
RecordTnf(record) ==
    IF record.type \in {"MIME", "WIFI", "VCARD"} THEN TNF_MIME
    ELSE TNF_WELL_KNOWN

RecordTypeString(record) ==
    CASE record.type = "TEXT" -> TypeText
      [] record.type \in {"URI", "PHONE", "EMAIL"} -> TypeUri
      [] record.type = "MIME" -> record.mimeType
      [] record.type = "WIFI" -> TypeWifi
      [] record.type = "VCARD" -> TypeVCard
      [] OTHER -> <<>>

RecordPayload(record) ==
    CASE record.type = "TEXT" ->
            <<ByteOf(Len(record.language))>> \o record.language
                \o record.payload
      [] record.type = "URI" ->
            <<getURIPrefix(record.payload)>> \o RemovePrefix(record.payload)
      [] record.type = "PHONE" -> <<5>> \o record.payload
      [] record.type = "EMAIL" -> <<6>> \o record.payload
      [] OTHER -> record.payload

\* TagWriter::createNDEFRecord
createNDEFRecord(record) ==
    IF record.type \notin {"TEXT", "URI", "MIME", "WIFI", "PHONE", "EMAIL",
                           "VCARD"}
    THEN [status |-> "INVALID_PARAM", data |-> <<>>]
    ELSE [status |-> "OK",
          data |-> <<RecordTnf(record),
                     ByteOf(Len(RecordTypeString(record))),
                     ByteOf(Len(RecordPayload(record)))>>
                   \o RecordTypeString(record) \o RecordPayload(record)]

\* Every record taken for the last one.
AnyRecordLast(records, i) == TRUE

\* createNDEFMessage's test for the last record: i == records.size() - 1,
\* with i counted from 1 here.
LastRecord(records, i) == i = Len(records)

\* TagWriter::createNDEFMessage from record i on, data being the bytes of the
\* records before it.
RECURSIVE CreateFrom(_, _, _)
CreateFrom(records, i, data) ==
    IF i > Len(records) THEN [status |-> "OK", data |-> data]
    ELSE LET r == createNDEFRecord(records[i])
             mb == IF i = 1 THEN BitOr(r.data[1], FLAG_MB) ELSE r.data[1]
             me == IF LastRecord(records, i) THEN BitOr(mb, FLAG_ME) ELSE mb
         IN  IF r.status # "OK" THEN [status |-> r.status, data |-> data]
             ELSE CreateFrom(records, i + 1, data \o <<me>> \o Tail(r.data))

\* TagWriter::createNDEFMessage
createNDEFMessage(records) == CreateFrom(records, 1, <<>>)

\* The Text case of parseNDEFRecord on the payload bytes raw.
ParseText(raw) ==
    LET langLength == BitAnd(raw[1], LANG_LENGTH_MASK)
    IN  IF Len(raw) > 3
        THEN [NewRecord EXCEPT !.type = "TEXT", !.rawData = raw,
                 !.language = SubSeq(raw, 2, 1 + langLength),
                 !.payload = SubSeq(raw, 2 + langLength, Len(raw))]
        ELSE [NewRecord EXCEPT !.type = "TEXT", !.rawData = raw]

\* The URI case of parseNDEFRecord on the payload bytes raw.
ParseUri(raw) ==
    LET rest == SubSeq(raw, 2, Len(raw))
    IN  IF Len(raw) > 1
        THEN [NewRecord EXCEPT !.type = "URI", !.rawData = raw,
                 !.payload = IF raw[1] < Len(ParsedPrefixes)
                             THEN ParsedPrefixes[raw[1] + 1] \o rest
                             ELSE rest]
        ELSE [NewRecord EXCEPT !.type = "URI", !.rawData = raw]

\* TagReader::parseNDEFRecord at the offset (from 0) of a record that lies
\* within data, as every record of createNDEFMessage does.
parseNDEFRecord(data, offset) ==
    IF offset >= Len(data)
    THEN [status |-> "ERROR", record |-> NewRecord, bytesRead |-> 0]
    ELSE
      LET flags == data[offset + 1]
          tnf == BitAnd(flags, TNF_MASK)
          typeLength == data[offset + 2]
          payloadLength == data[offset + 3]
          hasId == BitAnd(flags, FLAG_IL) # 0
          typeAt == offset + 3 + (IF hasId THEN 1 ELSE 0)
          type == SubSeq(data, typeAt + 1, typeAt + typeLength)
          idLength == IF hasId THEN data[typeAt] ELSE 0
          payloadAt == typeAt + typeLength + idLength
          raw == SubSeq(data, payloadAt + 1, payloadAt + payloadLength)
          record ==
            IF tnf = TNF_WELL_KNOWN
            THEN IF type = TypeText THEN ParseText(raw)
                 ELSE IF type = TypeUri THEN ParseUri(raw)
                 ELSE [NewRecord EXCEPT !.rawData = raw]
            ELSE IF tnf = TNF_MIME
            THEN [NewRecord EXCEPT !.type = "MIME", !.rawData = raw,
                                   !.mimeType = type, !.payload = raw]
            ELSE [NewRecord EXCEPT !.type = "UNKNOWN", !.rawData = raw]
      IN  [status |-> "OK", record |-> record,
           bytesRead |-> payloadAt + payloadLength - offset]

\* The loop of TagReader::parseNDEFMessage from offset on.
RECURSIVE ParseFrom(_, _, _)
ParseFrom(data, offset, records) ==
    IF offset >= Len(data) THEN records
    ELSE LET p == parseNDEFRecord(data, offset)
         IN  IF p.status # "OK" THEN records
             ELSE IF BitAnd(data[offset + 1], FLAG_ME) # 0
             THEN Append(records, p.record)
             ELSE ParseFrom(data, offset + p.bytesRead,
                            Append(records, p.record))

\* TagReader::parseNDEFMessage
parseNDEFMessage(data) ==
    [status |-> "OK", records |-> ParseFrom(data, 0, <<>>)]

(***************************************************************************)
(* Raw access to an ISO14443-A tag.  The tag's memory is a function from   *)
(* byte addresses (from 0) to byte values.  Every block command is one     *)
(* ST25R3911B::TransmitReceive; fail says which of an operation's          *)
(* exchanges, counted from 1, returns a status other than OK (0: none); a  *)
(* fail with status OK is an exchange that returns OK with an answer of    *)
(* fewer than 16 bytes.                                                    *)
(***************************************************************************)
TagSize == 256

PageSize == 4
BlockSize == 16
NDEF_MAGIC == 225
LengthOffset == 14
DataOffset == 16

NoFail == [at |-> 0, status |-> "OK"]

\* A failure reported as ERROR whatever the exchange returned.
ReturnedAsError(status) == "ERROR"

\* "if (status != NFCStatus::OK) return status;" of both block loops.
Returned(status) == status

MinOf(a, b) == IF a < b THEN a ELSE b

\* The tag's WRITE (0xA2): the 4 bytes replace the page.
TagWrite(mem, page, bytes) ==
    [a \in DOMAIN mem |->
        IF a \div PageSize = page THEN bytes[(a % PageSize) + 1] ELSE mem[a]]

\* The tag's answer to READ (0x30) with argument n: 16 bytes from address
\* n * unit.  A Type 2 tag counts n in pages of 4 bytes; readISO14443A
\* computes n as address / 16.
TagRead(mem, unit, n) == [k \in 1..BlockSize |-> mem[n * unit + k - 1]]

\* The loop of TagWriter::writeISO14443A with bytesWritten = written; sent
\* counts the commands handed to TransmitReceive.  A frame of an exchange
\* that fails is taken not to have changed the tag.
RECURSIVE WritePages(_, _, _, _, _)
WritePages(mem, address, data, written, fail) ==
    LET sent == written \div PageSize
        page == ByteOf((address + written) \div PageSize)
        n == MinOf(PageSize, Len(data) - written)
        bytes == [k \in 1..PageSize |->
                    IF k <= n THEN data[written + k] ELSE 0]
    IN  IF written >= Len(data)
        THEN [status |-> "OK", mem |-> mem, sent |-> sent]
        ELSE IF fail.at = sent + 1 /\ fail.status # "OK"
        THEN [status |-> Returned(fail.status), mem |-> mem,
              sent |-> sent + 1]
        ELSE WritePages(TagWrite(mem, page, bytes), address, data,
                        written + n, fail)

\* TagWriter::writeISO14443A(address, data)
writeISO14443A(mem, address, data, fail) ==
    WritePages(mem, address, data, 0, fail)

\* The loop of TagReader::readISO14443A with bytesRead = Len(data).
RECURSIVE ReadBlocks(_, _, _, _, _, _)
ReadBlocks(mem, unit, address, length, data, fail) ==
    LET sent == Len(data) \div BlockSize
        block == ByteOf((address + Len(data)) \div BlockSize)
        response == TagRead(mem, unit, block)
        n == MinOf(BlockSize, length - Len(data))
    IN  IF Len(data) >= length
        THEN [status |-> "OK", data |-> data, sent |-> sent]
        ELSE IF fail.at = sent + 1 /\ fail.status # "OK"
        THEN [status |-> Returned(fail.status), data |-> data,
              sent |-> sent + 1]
        ELSE IF fail.at = sent + 1
        THEN [status |-> "ERROR", data |-> data, sent |-> sent + 1]
        ELSE ReadBlocks(mem, unit, address, length,
                        data \o SubSeq(response, 1, n), fail)

\* TagReader::readISO14443A(address, length, data)
readISO14443A(mem, unit, address, length, fail) ==
    ReadBlocks(mem, unit, address, length, <<>>, fail)

\* TagWriter::WriteNDEF on an ISO14443-A tag that is not read-only, behind
\* an initialized controller: data is what createNDEFMessage made.
WriteNDEF(mem, data) ==
    LET lengthHeader == <<ByteOf(Len(data) \div (MaxByte + 1)),
                          ByteOf(Len(data))>>
        w == writeISO14443A(mem, LengthOffset, lengthHeader, NoFail)
    IN  IF w.status # "OK" THEN w
        ELSE writeISO14443A(w.mem, DataOffset, data, NoFail)

\* TagReader::ReadNDEF on an ISO14443-A tag behind an initialized
\* controller: the status and the message bytes handed to parseNDEFMessage.
ReadNDEF(mem, unit) ==
    LET h == readISO14443A(mem, unit, 0, BlockSize, NoFail)
        ndefLength == h.data[LengthOffset + 1] * (MaxByte + 1)
                        + h.data[LengthOffset + 2]
        d == readISO14443A(mem, unit, DataOffset, ndefLength, NoFail)
    IN  IF h.status # "OK" THEN [status |-> h.status, data |-> <<>>]
        ELSE IF Len(h.data) < BlockSize \/ h.data[1] # NDEF_MAGIC
        THEN [status |-> "ERROR", data |-> <<>>]
        ELSE IF ndefLength = 0 THEN [status |-> "OK", data |-> <<>>]
        ELSE IF d.status # "OK" THEN [status |-> d.status, data |-> <<>>]
        ELSE [status |-> "OK", data |-> d.data]

\* A tag whose capability header carries the magic byte and nothing else.
FormattedTag == [a \in 0..(TagSize - 1) |-> IF a = 0 THEN NDEF_MAGIC ELSE 0]

\* How the tag counts the argument of READ: in pages, or in the 16-byte
\* blocks readISO14443A assumes.
ReadUnits == {PageSize, BlockSize}

\* The type indicator taken high byte first.
AtqaHighFirst(response) == response[1] * (MaxByte + 1) + response[2]

\* identifyTag's type indicator: (response[1] << 8) | response[0], the
\* response being indexed from 1 here.
Atqa(response) == response[2] * (MaxByte + 1) + response[1]

ATQA_MIFARE_CLASSIC == 4
ATQA_NTAG == 68

\* NFCManager::identifyTag(response, tagInfo): the status and the TagInfo
\* fields it sets (none when it returns ERROR).
identifyTag(response) ==
    IF Len(response) < 2
    THEN [status |-> "ERROR", protocol |-> "NONE", dataSize |-> 0,
          atqa |-> <<>>, isReadOnly |-> FALSE]
    ELSE [status |-> "OK",
          protocol |-> IF Atqa(response) = ATQA_MIFARE_CLASSIC
                       THEN "MIFARE_CLASSIC" ELSE "NFC_A",
          dataSize |-> CASE Atqa(response) = ATQA_MIFARE_CLASSIC -> 1024
                         [] Atqa(response) = ATQA_NTAG -> 8192
                         [] OTHER -> 2048,
          atqa |-> response, isReadOnly |-> FALSE]

(***************************************************************************)
(* Functions of the controller that compute on what ReadRegister and       *)
(* WriteRegister return: a register read is [status, value].               *)
(***************************************************************************)
FIFO_SIZE == 96
FIFO_COUNT_MASK == 127
FIFO_OVERFLOW_BIT == 128

\* The byte count taken from the first status byte alone.
FifoCountLow(status1, status2) == BitAnd(status1, FIFO_COUNT_MASK)

\* GetFifoStatus's bytesInFifo:
\* (status2 & 0x80) ? ((status1 & 0x7F) | 0x80) : (status1 & 0x7F)
FifoCount(status1, status2) ==
    IF BitAnd(status2, FIFO_OVERFLOW_BIT) # 0
    THEN BitOr(BitAnd(status1, FIFO_COUNT_MASK), FIFO_OVERFLOW_BIT)
    ELSE BitAnd(status1, FIFO_COUNT_MASK)

\* ST25R3911B::GetFifoStatus, r1 and r2 being what ReadRegister returns for
\* REG_FIFO_RX_STATUS1 and REG_FIFO_RX_STATUS2; reads counts the calls of
\* ReadRegister, set tells whether the outputs were assigned.
GetFifoStatus(r1, r2) ==
    IF r1.status # "OK"
    THEN [status |-> r1.status, reads |-> 1, set |-> FALSE,
          bytesInFifo |-> 0, fifoFull |-> FALSE]
    ELSE IF r2.status # "OK"
    THEN [status |-> r2.status, reads |-> 2, set |-> FALSE,
          bytesInFifo |-> 0, fifoFull |-> FALSE]
    ELSE [status |-> "OK", reads |-> 2, set |-> TRUE,
          bytesInFifo |-> FifoCount(r1.value, r2.value),
          fifoFull |-> FifoCount(r1.value, r2.value) >= FIFO_SIZE]

(***************************************************************************)
(* The bus transactions of Transmit and Receive.  fail says which of a     *)
(* call's bus exchanges, counted from 1, the bus master fails and with     *)
(* which status (0: none).                                                 *)
(***************************************************************************)
REG_FIFO_RX_STATUS1 == 40
REG_FIFO_RX_STATUS2 == 41
REG_FIFO_LOAD == 62
CMD_TRANSMIT_WITH_CRC == 196
CMD_TRANSMIT_WITHOUT_CRC == 197
IRQ_MAIN_RXE == 16
IRQ_MAIN_COL == 4

\* The byte written when the mask is not applied.
UnmaskedValue(old, mask, value) == value

\* ModifyRegister line 299: (regValue & ~mask) | (value & mask) in a byte.
MaskedValue(old, mask, value) ==
    BitOr(BitAnd(old, MaxByte - mask), BitAnd(value, mask))

\* ST25R3911B::ModifyRegister(reg, mask, value) from what its ReadRegister
\* returned (rd: a status and the byte read) and the status wr its
\* WriteRegister returns if called: the status, whether the write was made
\* and the byte written.
ModifyRegisterResult(rd, mask, value, wr) ==
    IF rd.status # "OK"
    THEN [status |-> rd.status, wrote |-> FALSE, written |-> 0]
    ELSE [status |-> wr, wrote |-> TRUE,
          written |-> MaskedValue(rd.value, mask, value)]

\* The failure as the exchanges after the first n see it.
FailAfter(fail, n) ==
    IF fail.at > n THEN [fail EXCEPT !.at = fail.at - n] ELSE NoFail

\* A sequence of register accesses or commands each of which returns at once
\* when its exchange fails: the status and the transactions made.
RunFrames(frames, fail) ==
    IF fail.at \in 1..Len(frames) /\ fail.status # "OK"
    THEN [status |-> convertSpiStatus(fail.status),
          wire |-> SubSeq(frames, 1, fail.at)]
    ELSE [status |-> "OK", wire |-> frames]

\* Transmit line 450: the command for the crc argument.
TransmitCommand(crc) ==
    IF crc THEN CMD_TRANSMIT_WITH_CRC ELSE CMD_TRANSMIT_WITHOUT_CRC

\* ST25R3911B::Transmit(data, crc): ClearFifo, WriteFifo (one write of
\* REG_FIFO_LOAD per byte), ExecuteCommand; the status and the transactions.
TransmitRun(c, data, crc, fail) ==
    IF ~c.initialized \/ data = <<>>
    THEN [status |-> "INVALID_PARAM", wire |-> <<>>]
    ELSE RunFrames(<<CommandFrame(CMD_CLEAR_FIFO)>>
                     \o [k \in 1..Len(data) |->
                            WriteFrame(REG_FIFO_LOAD, data[k])]
                     \o <<CommandFrame(TransmitCommand(crc))>>,
                   fail)

\* The main interrupt register as Receive reads it.
MainIrqOf(irq) ==
    CASE irq = "COL" -> IRQ_MAIN_COL
      [] irq = "RXE" -> IRQ_MAIN_RXE
      [] OTHER -> 0

\* ST25R3911B::Receive(data, timeoutMs) with its inputs as for CtlReceive:
\* the status, the transactions made and the number of bytes put into data.
ReceiveRun(c, timeoutMs, at, irq, fifoBytes, fail) ==
    LET status3 == RunFrames(<<ReadFrame(REG_IRQ_MAIN),
                               ReadFrame(REG_IRQ_TIMER_NFC),
                               ReadFrame(REG_IRQ_ERROR_WUP)>>, fail)
        fifo2 == RunFrames(<<ReadFrame(REG_FIFO_RX_STATUS1),
                             ReadFrame(REG_FIFO_RX_STATUS2)>>,
                           FailAfter(fail, 3))
        drain == RunFrames([k \in 1..fifoBytes |-> ReadFrame(REG_FIFO_DATA)],
                           FailAfter(fail, 5))
        clear == RunFrames(<<WriteFrame(REG_IRQ_MAIN, MainIrqOf(irq)),
                             WriteFrame(REG_IRQ_TIMER_NFC, 0),
                             WriteFrame(REG_IRQ_ERROR_WUP, 0)>>,
                           FailAfter(fail, 5 + fifoBytes))
    IN  IF ~c.initialized
        THEN [status |-> "NOT_INITIALIZED", wire |-> <<>>, bytes |-> 0]
        ELSE IF ~InterruptSeen(c, ReceiveBudget(timeoutMs), at)
        THEN [status |-> "TIMEOUT", wire |-> <<>>, bytes |-> 0]
        ELSE IF status3.status # "OK"
        THEN [status |-> status3.status, wire |-> status3.wire, bytes |-> 0]
        ELSE IF irq = "COL"
        THEN [status |-> "COLLISION_ERROR", wire |-> status3.wire,
              bytes |-> 0]
        ELSE IF irq # "RXE"
        THEN [status |-> "TIMEOUT", wire |-> status3.wire, bytes |-> 0]
        ELSE IF fifo2.status # "OK"
        THEN [status |-> fifo2.status, wire |-> status3.wire \o fifo2.wire,
              bytes |-> 0]
        ELSE [status |-> drain.status,
              wire |-> status3.wire \o fifo2.wire \o drain.wire
                          \o clear.wire,
              bytes |-> IF drain.status = "OK" THEN fifoBytes
                        ELSE Len(drain.wire) - 1]

\* The failure that bus status s on every exchange amounts to.
FailOf(s) == IF s = "OK" THEN NoFail ELSE [at |-> 1, status |-> s]

(***************************************************************************)
(* SetField, GetField and SetProtocol on the registers of the chip: regs   *)
(* maps a register address to the byte the chip holds there, a write that  *)
(* the bus reports OK stores its byte and a read gives the stored byte.    *)
(* fail is the failing bus exchange of the call as for Transmit.           *)
(***************************************************************************)
OP_CONTROL_EN == 1
MODE_TR_EN == 1
MODE_OM_MASK == 60
MODE_OM_NFC == 0
MODE_OM_ISO14443A == 4
MODE_OM_ISO14443B == 8
MODE_OM_FELICA == 12
MODE_OM_SUBCARRIER == 16
ISO14443A_SETTING == 136

\* ST25R3911B::WriteRegister(reg, value) as one bus exchange.
WriteOn(regs, reg, value, fail) ==
    LET st == IF fail.at = 1 THEN convertSpiStatus(fail.status) ELSE "OK"
    IN  [status |-> st,
         regs |-> IF st = "OK" THEN [regs EXCEPT ![reg] = value] ELSE regs,
         wire |-> <<WriteFrame(reg, value)>>]

\* A modification that writes value whatever the register held.
ModifyOnWholeByte(regs, reg, mask, value, fail) ==
    WriteOn(regs, reg, value, FailAfter(fail, 1))

\* ST25R3911B::ModifyRegister(reg, mask, value) as two bus exchanges.
ModifyOn(regs, reg, mask, value, fail) ==
    LET rd == IF fail.at = 1
              THEN [status |-> convertSpiStatus(fail.status), value |-> 0]
              ELSE [status |-> "OK", value |-> regs[reg]]
        wr == IF fail.at = 2 THEN convertSpiStatus(fail.status) ELSE "OK"
        r == ModifyRegisterResult(rd, mask, value, wr)
    IN  [status |-> r.status,
         regs |-> IF r.wrote /\ r.status = "OK"
                  THEN [regs EXCEPT ![reg] = r.written] ELSE regs,
         wire |-> IF r.wrote
                  THEN <<ReadFrame(reg), WriteFrame(reg, r.written)>>
                  ELSE <<ReadFrame(reg)>>]

\* ST25R3911B::SetField(field) on a controller whose _fieldState is
\* fieldState: the status, the _fieldState and the registers after it, and
\* the transactions made.
SetFieldRun(fieldState, regs, field, fail) ==
    IF field = "ON"
    THEN LET m1 == ModifyOn(regs, REG_OP_CONTROL, OP_CONTROL_EN,
                            OP_CONTROL_EN, fail)
             m2 == ModifyOn(m1.regs, REG_MODE, MODE_TR_EN, MODE_TR_EN,
                            FailAfter(fail, 2))
         IN  IF m1.status # "OK"
             THEN [status |-> m1.status, fieldState |-> fieldState,
                   regs |-> m1.regs, wire |-> m1.wire]
             ELSE IF m2.status # "OK"
             THEN [status |-> m2.status, fieldState |-> fieldState,
                   regs |-> m2.regs, wire |-> m1.wire \o m2.wire]
             ELSE [status |-> "OK",
                   fieldState |-> field,
                   regs |-> m2.regs, wire |-> m1.wire \o m2.wire]
    ELSE LET m1 == ModifyOn(regs, REG_MODE, MODE_TR_EN, 0, fail)
             m2 == ModifyOn(m1.regs, REG_OP_CONTROL, OP_CONTROL_EN, 0,
                            FailAfter(fail, 2))
         IN  IF m1.status # "OK"
             THEN [status |-> m1.status, fieldState |-> fieldState,
                   regs |-> m1.regs, wire |-> m1.wire]
             ELSE [status |-> m2.status,
                   fieldState |-> field,
                   regs |-> m2.regs, wire |-> m1.wire \o m2.wire]

\* ST25R3911B::GetField(field) whose register read returns rd: the status
\* and the field reported (and recorded).
GetFieldRun(fieldState, rd) ==
    IF rd.status # "OK"
    THEN [status |-> rd.status, field |-> fieldState]
    ELSE [status |-> "OK",
          field |-> IF BitAnd(rd.value, MODE_TR_EN) # 0 THEN "ON"
                    ELSE "OFF"]

(***************************************************************************)
(* Raw access to a tag.  A frame handed to ST25R3911B::TransmitReceive is  *)
(* a sequence of bytes; fail says which exchange of the call returns which *)
(* status other than OK (status OK: an answer shorter than a block).       *)
(***************************************************************************)
AUTH_A == 96
READ_CMD == 48
WRITE_CMD == 162
WRITE_BLOCK_CMD == 160
DEFAULT_KEY == <<MaxByte, MaxByte, MaxByte, MaxByte, MaxByte, MaxByte>>

\* The exchanges of frames, each made only when those before returned OK.
TagExchanges(frames, fail) ==
    IF fail.at \in 1..Len(frames) /\ fail.status # "OK"
    THEN [status |-> fail.status, wire |-> SubSeq(frames, 1, fail.at)]
    ELSE [status |-> "OK", wire |-> frames]

\* authCmd of readMifareClassic and writeMifareClassic.
AuthFrame(block) == <<AUTH_A, block>> \o DEFAULT_KEY

\* TagReader::readMifareClassic(block, data)
readMifareClassic(block, fail) ==
    LET x == TagExchanges(<<AuthFrame(block), <<READ_CMD, block>>>>, fail)
    IN  IF x.status = "OK" /\ fail.at = 2
        THEN [x EXCEPT !.status = "ERROR"]
        ELSE x

\* TagWriter::writeMifareClassic(block, data)
writeMifareClassic(block, data, fail) ==
    IF Len(data) # BlockSize
    THEN [status |-> "INVALID_PARAM", wire |-> <<>>]
    ELSE TagExchanges(<<AuthFrame(block),
                        <<WRITE_BLOCK_CMD, block>> \o data>>, fail)

\* TagReader::ReadRawData(tagInfo, address, length, data) through controller
\* c, which is never null: the status and the frames transmitted (of those
\* of readISO14443A the command and the block).
ReadRawData(c, tagInfo, address, length, fail) ==
    IF ~c.initialized
    THEN [status |-> "NOT_INITIALIZED", wire |-> <<>>]
    ELSE IF tagInfo.protocol = "NFC_A"
    THEN LET r == readISO14443A(FormattedTag, BlockSize, address, length,
                                fail)
         IN  [status |-> r.status,
              wire |-> [k \in 1..r.sent |->
                          <<READ_CMD, ByteOf(address \div BlockSize + k - 1)>>]]
    ELSE IF tagInfo.protocol = "MIFARE_CLASSIC"
    THEN readMifareClassic(ByteOf(address), fail)
    ELSE [status |-> "UNSUPPORTED_TAG", wire |-> <<>>]

\* TagWriter::WriteRawData(tagInfo, address, data), likewise.
WriteRawData(c, tagInfo, address, data, fail) ==
    IF ~c.initialized
    THEN [status |-> "NOT_INITIALIZED", wire |-> <<>>]
    ELSE IF tagInfo.isReadOnly
    THEN [status |-> "ERROR", wire |-> <<>>]
    ELSE IF tagInfo.protocol = "NFC_A"
    THEN LET r == writeISO14443A(FormattedTag, address, data, fail)
         IN  [status |-> r.status,
              wire |-> [k \in 1..r.sent |->
                          <<WRITE_CMD, ByteOf(address \div PageSize + k - 1)>>]]
    ELSE IF tagInfo.protocol = "MIFARE_CLASSIC"
    THEN writeMifareClassic(ByteOf(address), data, fail)
    ELSE [status |-> "UNSUPPORTED_TAG", wire |-> <<>>]

\* The byte configureProtocol writes to the protocol's register.
ProtocolSetting(protocol) ==
    IF protocol \in {"NFC_A", "MIFARE_CLASSIC"} THEN ISO14443A_SETTING ELSE 0

\* Mode-select bits that give MIFARE Classic the NFC mode.
ModeSelectClassicApart(protocol) ==
    CASE protocol = "NFC_A" -> MODE_OM_ISO14443A
      [] protocol = "NFC_B" -> MODE_OM_ISO14443B
      [] protocol = "NFC_F" -> MODE_OM_FELICA
      [] protocol = "NFC_V" -> MODE_OM_SUBCARRIER
      [] protocol = "NFC_P2P" -> MODE_OM_NFC
      [] protocol = "MIFARE_CLASSIC" -> MODE_OM_NFC

\* modeValue of configureProtocol.
ModeSelect(protocol) ==
    CASE protocol = "NFC_A" -> MODE_OM_ISO14443A
      [] protocol = "NFC_B" -> MODE_OM_ISO14443B
      [] protocol = "NFC_F" -> MODE_OM_FELICA
      [] protocol = "NFC_V" -> MODE_OM_SUBCARRIER
      [] protocol = "NFC_P2P" -> MODE_OM_NFC
      [] protocol = "MIFARE_CLASSIC" -> MODE_OM_ISO14443A

\* ST25R3911B::configureProtocol(protocol) on the registers of the chip.
ConfigureProtocolRun(regs, protocol, fail) ==
    LET w == WriteOn(regs, ProtocolRegister(protocol),
                     ProtocolSetting(protocol), fail)
        m == ModifyOn(w.regs, REG_MODE, MODE_OM_MASK, ModeSelect(protocol),
                      FailAfter(fail, 1))
    IN  IF protocol \notin NFCProtocol
        THEN [status |-> "INVALID_PARAM", regs |-> regs, wire |-> <<>>]
        ELSE IF w.status # "OK" THEN w
        ELSE [m EXCEPT !.wire = w.wire \o m.wire]

\* ST25R3911B::SetProtocol(protocol) on a controller whose _currentProtocol
\* is currentProtocol: the status, the _currentProtocol and the registers
\* after it, and the transactions made.
SetProtocolRun(currentProtocol, regs, protocol, fail) ==
    LET r == ConfigureProtocolRun(regs, protocol, fail)
    IN  [status |-> r.status,
         currentProtocol |-> IF r.status = "OK" THEN protocol
                             ELSE currentProtocol,
         regs |-> r.regs, wire |-> r.wire]

\* NFCManager::StartTagDetection(protocols, callback) on a manager m whose
\* controller records fieldState, in front of a chip regs: the status, the
\* manager, the controller's _fieldState and the registers after it, and the
\* transactions made.
StartTagDetectionRun(m, fieldState, regs, fail) ==
    LET on == SetFieldRun(fieldState, regs, "ON", fail)
        pr == SetProtocolRun("NFC_A", on.regs, "NFC_A", FailAfter(fail, 4))
        m1 == [m EXCEPT !.detectionCallback = TRUE]
    IN  IF ~m.initialized \/ m.detectionActive
        THEN [status |-> "ERROR", mgr |-> m, fieldState |-> fieldState,
              regs |-> regs, wire |-> <<>>]
        ELSE IF on.status # "OK"
        THEN [status |-> on.status, mgr |-> m1,
              fieldState |-> on.fieldState, regs |-> on.regs,
              wire |-> on.wire]
        ELSE IF pr.status # "OK"
        THEN [status |-> pr.status, mgr |-> m1,
              fieldState |-> on.fieldState, regs |-> pr.regs,
              wire |-> on.wire \o pr.wire]
        ELSE [status |-> "OK", mgr |-> [m1 EXCEPT !.detectionActive = TRUE],
              fieldState |-> on.fieldState, regs |-> pr.regs,
              wire |-> on.wire \o pr.wire]

\* No codec call has been made.
NoCodec ==
    [op |-> "none", records |-> <<>>, status |-> "NONE", data |-> <<>>,
     parsed |-> <<>>]

(***************************************************************************)
(* State.                                                                  *)
(***************************************************************************)
VARIABLES
    \* NFCTaskManager fields
    initialized,        \* _initialized
    nfcManager,         \* _nfcManager: "null" or "set"
    taskHandle,         \* _taskHandle: "null", "live" or "dangling"
    commandQueueH,      \* _commandQueue handle: "null", "live" or "dangling"
    responseQueueH,     \* _responseQueue handle
    nfcMutexH,          \* _nfcMutex handle
    commandsProcessed,  \* _commandsProcessed
    nextRequestId,      \* _nextRequestId
    detectionCallback,  \* whether _detectionCallback is set
    \* kernel objects behind the handles
    commandQueue,       \* items of the command queue, head first
    responseQueue,      \* items of the response queue, head first
    mutexHolder,        \* task holding the NFC mutex, or "none"
    notifyCount,        \* notification value of the consumer task
    \* consumer task (taskMainLoop)
    pc,                 \* its position, "none" when no task exists
    command,            \* local variable command
    result,             \* local variable result
    \* callers of the public enqueue API
    hp,                 \* per calling task: the frame of the call in progress
    \* NFC manager and controller
    mgr,
    ctl,
    \* history, not program state
    started,            \* number of enqueue calls counted against MaxCalls
    accepted,           \* number of commands accepted into the command queue
    dequeued,           \* tags of the commands the consumer dequeued, in order
    fired,              \* tags of the commands whose result was delivered
    calls,              \* holder of the NFC mutex at each manager, reader
                        \* or writer call made for the command in hand
    irqBus,             \* a bus transaction was made in interrupt context
    \* the application task's call of Initialize or Deinitialize
    lifeCall,           \* the call that is returning, its arguments and status
    \* a controller object driven through its public interface on its own
    bench,              \* bus master, controller, chip registers, last calls
    \* a record codec call: its records, the bytes made, the records parsed
    codec

tmVars ==
    <<initialized, nfcManager, taskHandle, commandQueueH, responseQueueH,
      nfcMutexH, commandsProcessed, nextRequestId, detectionCallback>>

kernelVars == <<commandQueue, responseQueue, mutexHolder, notifyCount>>

taskVars == <<pc, command, result>>

hwVars == <<mgr, ctl>>

histVars == <<started, accepted, dequeued, fired, calls, irqBus>>

schedVars == <<tmVars, kernelVars, taskVars, hp, hwVars, histVars, lifeCall>>

vars == <<schedVars, bench, codec>>

\* NFCCommandData as its default constructor leaves it; tag is the position
\* of the command in the order of acceptance (history, 0: not accepted).
NoCommand ==
    [command |-> "GET_STATUS", priority |-> NFCPriority.NORMAL,
     requestId |-> 0, fieldState |-> "OFF", callback |-> "none", tag |-> 0]

\* No OperationResult exists.
NoResult == [operation |-> "NONE", status |-> "NONE", errorMessage |-> ""]

\* The frame of a task that is in no public enqueue call.
IdleFrame ==
    [pc |-> "idle", cmd |-> NoCommand, tmp |-> 0,
     wait |-> FALSE, ret |-> "NONE"]

\* The frame of a call that is about to return status st to its caller; tag
\* is the tag of the command it enqueued (0: none) and id its request id.
ReturnFrame(st, tag, id) ==
    [IdleFrame EXCEPT !.pc = "ret", !.ret = st, !.cmd.tag = tag,
                      !.cmd.requestId = id]

\* NFCTask::CreateErrorResult
CreateErrorResult(operation, status, message) ==
    [operation |-> operation, status |-> status, errorMessage |-> message]

\* ST25R3911B as its constructor leaves it (lines 23-32).
NewController ==
    [initialized |-> FALSE, fieldState |-> "OFF",
     currentProtocol |-> "NFC_A", interruptPending |-> FALSE]

\* No call has been made on the controller driven on its own.
NoCall ==
    [op |-> "none", arg |-> 0, value |-> 0, status |-> "NONE", bus |-> FALSE,
     irq |-> FALSE, wire |-> <<>>]

\* Register addresses and command bytes the calls are made with: the ends of
\* the valid ranges, their neighbours and the registers Initialize uses.
BenchRegisters == {REG_IO_CONF1, REG_MODE, REG_IC_IDENTITY, REG_FIFO_DATA,
                   REG_FIFO_DATA + 1, MaxByte}

BenchCommands == {0, REG_FIFO_DATA, FirstDirectCommand - 1, FirstDirectCommand,
                  CMD_SET_DEFAULT, MaxByte}

\* Bytes written, and identity bytes the chip can hold.
BenchValues == {0, IC_IDENTITY_VALUE, MaxByte}

BenchIdentities == {IC_IDENTITY_VALUE, IC_IDENTITY_VALUE + IC_TYPE_MASK + 1,
                    IC_IDENTITY_VALUE + 1, 0}

\* A controller just constructed on a bus master (spiUp: the bus master is
\* initialized) in front of a chip whose registers echo the last value
\* written and whose identity register holds identity.
FreshBench(spiUp, identity) ==
    [spiUp |-> spiUp,
     ctl |-> NewController,
     regs |-> [a \in {r \in BenchRegisters : isValidRegister(r)} |->
                 IF a = REG_IC_IDENTITY THEN identity ELSE 0],
     prev |-> NoCall,
     last |-> NoCall]

\* The application task is in no call of Initialize or Deinitialize.
NoLifeCall ==
    [op |-> "none", status |-> "NONE", managerNull |-> FALSE, fail |-> "none"]

\* The scheduler and its hardware objects after the constructors of App_init.
SchedulerInit ==
    /\ initialized = FALSE
    /\ nfcManager = "null"
    /\ taskHandle = "null"
    /\ commandQueueH = "null"
    /\ responseQueueH = "null"
    /\ nfcMutexH = "null"
    /\ commandsProcessed = 0
    /\ nextRequestId = FirstRequestId
    /\ detectionCallback = FALSE
    /\ commandQueue = <<>>
    /\ responseQueue = <<>>
    /\ mutexHolder = "none"
    /\ notifyCount = 0
    /\ pc = "none"
    /\ command = NoCommand
    /\ result = NoResult
    /\ hp = [c \in Callers |-> IdleFrame]
    /\ mgr = [initialized |-> FALSE, detectionActive |-> FALSE,
              detectionCallback |-> FALSE]
    /\ ctl = NewController
    /\ started = 0
    /\ accepted = 0
    /\ dequeued = <<>>
    /\ fired = <<>>
    /\ calls = <<>>
    /\ irqBus = FALSE
    /\ lifeCall = NoLifeCall

\* State after the constructors of App_init, before NFCTaskManager::Initialize.
Init ==
    /\ SchedulerInit
    /\ bench = FreshBench(TRUE, IC_IDENTITY_VALUE)
    /\ codec = NoCodec

(***************************************************************************)
(* NFCTaskManager::Initialize and Deinitialize.                            *)
(***************************************************************************)
\* Kernel objects whose creation can fail in Initialize, in creation order.
InitFailures == {"none", "commandQueue", "responseQueue", "mutex", "task"}

\* Kernel objects Initialize has created when the creation of fail fails
\* ("none": no creation fails), in the order of lines 48-78.
CreatedBefore(fail) ==
    CASE fail = "commandQueue" -> {}
      [] fail = "responseQueue" -> {"commandQueue"}
      [] fail = "mutex" -> {"commandQueue", "responseQueue"}
      [] fail = "task" -> {"commandQueue", "responseQueue", "mutex"}
      [] OTHER -> {"commandQueue", "responseQueue", "mutex", "task"}

\* An Initialize that forgets the mutex when the task cannot be created.
ReleasedButMutex(fail) ==
    CASE fail = "responseQueue" -> {"commandQueue"}
      [] fail \in {"mutex", "task"} -> {"commandQueue", "responseQueue"}
      [] OTHER -> {}

\* Kernel objects the failure path of Initialize deletes when the creation
\* of fail fails: lines 57, 64-65 and 80-82.
ReleasedOnFailure(fail) ==
    CASE fail = "responseQueue" -> {"commandQueue"}
      [] fail = "mutex" -> {"commandQueue", "responseQueue"}
      [] fail = "task" -> {"commandQueue", "responseQueue", "mutex"}
      [] OTHER -> {}

\* The handle of kernel object obj after an Initialize that got past its
\* first check, old being the handle before: "live" for an object created
\* and kept, "dangling" for one created and deleted again, "null" for the
\* queue or mutex whose creation failed (xTaskCreate leaves the task handle
\* as it was), and "freedTwice" for a delete of what this call did not
\* create.
HandleAfterInitialize(obj, old, fail) ==
    IF obj \in CreatedBefore(fail)
    THEN IF obj \in ReleasedOnFailure(fail) THEN "dangling" ELSE "live"
    ELSE IF obj \in ReleasedOnFailure(fail) THEN "freedTwice"
    ELSE IF obj = fail /\ obj # "task" THEN "null"
    ELSE old

\* The status Initialize returns when it got past its first check.
InitializeStatus(fail) == IF fail = "none" THEN "OK" ELSE "ERROR"

\* NFCTaskManager::Initialize(config, nfcManager), called by the application
\* task between its other calls; managerNull: the pointer passed is null;
\* fail: the first kernel object whose creation fails.
Initialize(managerNull, fail) ==
    /\ hp["app"].pc = "idle"
    /\ lifeCall = NoLifeCall
    /\ IF initialized \/ managerNull
       THEN /\ lifeCall' = [op |-> "Initialize", status |-> "ERROR",
                            managerNull |-> managerNull, fail |-> "none"]
            /\ UNCHANGED <<tmVars, kernelVars, taskVars>>
       ELSE /\ lifeCall' = [op |-> "Initialize",
                            status |-> InitializeStatus(fail),
                            managerNull |-> FALSE, fail |-> fail]
            /\ nfcManager' = "set"
            /\ commandQueueH' =
                 HandleAfterInitialize("commandQueue", commandQueueH, fail)
            /\ responseQueueH' =
                 HandleAfterInitialize("responseQueue", responseQueueH, fail)
            /\ nfcMutexH' = HandleAfterInitialize("mutex", nfcMutexH, fail)
            /\ taskHandle' = HandleAfterInitialize("task", taskHandle, fail)
            /\ initialized' = (fail = "none")
            /\ pc' = IF fail = "none" THEN "receive" ELSE pc
            /\ commandQueue' = <<>>
            /\ responseQueue' = <<>>
            /\ mutexHolder' = "none"
            /\ notifyCount' = 0
            /\ UNCHANGED <<commandsProcessed, nextRequestId, detectionCallback,
                           command, result>>
    /\ UNCHANGED <<hp, hwVars, histVars, bench, codec>>

\* A Deinitialize that leaves the handle as it is.
HandleKept(old) == old

\* A handle after Deinitialize deleted its object: set to nullptr.
HandleAfterDeinitialize(old) == "null"

\* NFCTaskManager::Deinitialize, called by the application task between its
\* other calls.  vTaskDelete removes the consumer task wherever it is, with
\* its locals and any call it is in; the queues are deleted with their items
\* and the mutex with its holder.
Deinitialize ==
    /\ hp["app"].pc = "idle"
    /\ lifeCall = NoLifeCall
    /\ lifeCall' = [op |-> "Deinitialize", status |-> "OK",
                    managerNull |-> FALSE, fail |-> "none"]
    /\ IF ~initialized
       THEN UNCHANGED <<tmVars, kernelVars, taskVars, hp>>
       ELSE /\ taskHandle' = HandleAfterDeinitialize(taskHandle)
            /\ commandQueueH' = HandleAfterDeinitialize(commandQueueH)
            /\ responseQueueH' = HandleAfterDeinitialize(responseQueueH)
            /\ nfcMutexH' = HandleAfterDeinitialize(nfcMutexH)
            /\ initialized' = FALSE
            /\ pc' = "none"
            /\ command' = NoCommand
            /\ result' = NoResult
            /\ commandQueue' = <<>>
            /\ responseQueue' = <<>>
            /\ mutexHolder' = "none"
            /\ notifyCount' = 0
            /\ hp' = [hp EXCEPT !["consumer"] = IdleFrame]
            /\ UNCHANGED <<nfcManager, commandsProcessed, nextRequestId,
                           detectionCallback>>
    /\ calls' = <<>>
    /\ UNCHANGED <<hwVars, started, accepted, dequeued, fired, irqBus, bench, codec>>

\* Initialize or Deinitialize returns its status to the application task.
LifeReturn ==
    /\ lifeCall # NoLifeCall
    /\ lifeCall' = NoLifeCall
    /\ UNCHANGED <<tmVars, kernelVars, taskVars, hp, hwVars, histVars, bench, codec>>

(***************************************************************************)
(* The public enqueue API: the helpers and SendCommand.  A call is made of *)
(* the steps between which the calling task can be preempted.              *)
(***************************************************************************)
\* Whether task c can start a public call: the application task when it is
\* in no call, the consumer task from inside a "resubmit" result callback.
CanCall(c) ==
    /\ hp[c].pc = "idle"
    /\ initialized => (started < MaxCalls \/ c = "consumer")
    /\ c = "consumer" => (pc = "callback" /\ command.callback = "resubmit")
    /\ c = "app" => lifeCall = NoLifeCall

\* What starting a call from task c does to the consumer's position: a
\* callback that has made its call does not make another one.
EnterCall(c) ==
    IF c = "consumer" THEN pc' = "cbcall" /\ UNCHANGED <<command, result>>
    ELSE UNCHANGED taskVars

\* A helper that waits for room in the queue.
HelperWaitsForRoom(h) == TRUE

\* Whether helper h lets SendCommand wait on a full queue: every helper
\* calls SendCommand(command), whose timeoutMs defaults to 0.
HelperWait(h) == FALSE

\* A helper (StartTagDetection, StopTagDetection, ReadText, WriteText,
\* WriteURL, WriteWiFi, SetField) from its entry up to the first half of
\* generateRequestId, the read of _nextRequestId into tmp.
\* cb is the result callback passed (helpers that take one), field the
\* argument of SetField.
HelperCall(c, h, cb, field) ==
    /\ CanCall(c)
    /\ h \in HelperTakesCallback \/ cb = "none"
    /\ c = "consumer" => (h = "ReadText" /\ cb = "plain")
    /\ EnterCall(c)
    /\ IF ~initialized
       THEN /\ hp' = [hp EXCEPT ![c] = ReturnFrame("NOT_INITIALIZED", 0, 0)]
            /\ UNCHANGED detectionCallback
       ELSE /\ hp' = [hp EXCEPT ![c] =
                        [pc |-> "inc",
                         cmd |-> [command |-> HelperCommand[h],
                                  priority |-> HelperPriority[h],
                                  requestId |-> 0,
                                  fieldState |-> field,
                                  callback |-> cb,
                                  tag |-> 0],
                         tmp |-> nextRequestId, wait |-> HelperWait(h),
                         ret |-> "NONE"]]
            /\ detectionCallback' =
                 CASE h = "StartTagDetection" -> TRUE
                   [] h = "StopTagDetection" -> FALSE
                   [] OTHER -> detectionCallback
    /\ started' = IF initialized THEN started + 1 ELSE started
    /\ UNCHANGED <<initialized, nfcManager, taskHandle, commandQueueH,
                   responseQueueH, nfcMutexH, commandsProcessed, nextRequestId,
                   kernelVars, hwVars, accepted, dequeued, fired, calls, irqBus>>
    /\ UNCHANGED <<lifeCall, bench, codec>>

\* The value generateRequestId stores back from the value v it read.  The
\* counter is a uint32_t; MaxCalls keeps it far from the wrap at 2^32.
NextIdAfter(v) == v + 1

\* generateRequestId, second half: the incremented value is stored and the
\* value read is the id of the command.
GenWrite(c) ==
    /\ hp[c].pc = "inc"
    /\ nextRequestId' = NextIdAfter(hp[c].tmp)
    /\ hp' = [hp EXCEPT ![c].pc = "send", ![c].cmd.requestId = hp[c].tmp,
                        ![c].tmp = 0]
    /\ UNCHANGED <<initialized, nfcManager, taskHandle, commandQueueH,
                   responseQueueH, nfcMutexH, commandsProcessed,
                   detectionCallback, kernelVars, taskVars, hwVars, histVars>>
    /\ UNCHANGED <<lifeCall, bench, codec>>

\* Command kinds a caller of SendCommand passes in the model: one the
\* dispatch has no case for.
DirectCommands == {"READ_TAG"}

\* Priorities such a caller gives its commands in the model.
DirectPriorities == {NFCPriority.URGENT}

\* Result callbacks such a caller sets in the model.
DirectCallbacks == {"none"}

\* A direct call of the public SendCommand(command, timeoutMs) by the
\* application task, with a command the caller built itself; wait tells
\* whether timeoutMs is above 0.
SendCommandCall(k, prio, cb, wait) ==
    /\ CanCall("app")
    /\ started < MaxCalls
    /\ started' = started + 1
    /\ hp' = [hp EXCEPT !["app"] =
                [pc |-> "send",
                 cmd |-> [command |-> k, priority |-> prio, requestId |-> 0,
                          fieldState |-> "OFF", callback |-> cb, tag |-> 0],
                 tmp |-> 0, wait |-> wait, ret |-> "NONE"]]
    /\ UNCHANGED <<tmVars, kernelVars, taskVars, hwVars, accepted,
                   dequeued, fired, calls, irqBus>>
    /\ UNCHANGED <<lifeCall, bench, codec>>

\* A send to the front of the queue.
EnqueueAtFront(q, cmd) == <<cmd>> \o q

\* xQueueSend to the back of the command queue.
Enqueue(q, cmd) == Append(q, cmd)

\* NFCTaskManager::SendCommand, up to the point where xQueueSend returns or
\* blocks the caller on the full queue.
SendCommand(c) ==
    /\ hp[c].pc = "send"
    /\ IF ~initialized
       THEN /\ hp' = [hp EXCEPT ![c] = ReturnFrame("NOT_INITIALIZED", 0, 0)]
            /\ UNCHANGED <<commandQueue, accepted>>
       ELSE IF Len(commandQueue) < CommandQueueSize
       THEN /\ accepted' = accepted + 1
            /\ commandQueue' =
                 Enqueue(commandQueue, [hp[c].cmd EXCEPT !.tag = accepted + 1])
            /\ hp' = [hp EXCEPT ![c] = ReturnFrame("OK", accepted + 1,
                                                     hp[c].cmd.requestId)]
       ELSE IF hp[c].wait
       THEN /\ hp' = [hp EXCEPT ![c].pc = "blocked"]
            /\ UNCHANGED <<commandQueue, accepted>>
       ELSE /\ hp' = [hp EXCEPT ![c] = ReturnFrame("TIMEOUT", 0, 0)]
            /\ UNCHANGED <<commandQueue, accepted>>
    /\ UNCHANGED <<tmVars, responseQueue, mutexHolder, notifyCount, taskVars,
                   hwVars, started, dequeued, fired, calls, irqBus>>
    /\ UNCHANGED <<lifeCall, bench, codec>>

\* A caller blocked in xQueueSend is woken because the queue has room.
SendCommandResume(c) ==
    /\ hp[c].pc = "blocked"
    /\ Len(commandQueue) < CommandQueueSize
    /\ accepted' = accepted + 1
    /\ commandQueue' =
         Enqueue(commandQueue, [hp[c].cmd EXCEPT !.tag = accepted + 1])
    /\ hp' = [hp EXCEPT ![c] = ReturnFrame("OK", accepted + 1,
                                                     hp[c].cmd.requestId)]
    /\ UNCHANGED <<tmVars, responseQueue, mutexHolder, notifyCount, taskVars,
                   hwVars, started, dequeued, fired, calls, irqBus>>
    /\ UNCHANGED <<lifeCall, bench, codec>>

\* A caller blocked in xQueueSend uses up its wait budget on the full queue.
SendCommandTimeout(c) ==
    /\ hp[c].pc = "blocked"
    /\ Len(commandQueue) >= CommandQueueSize
    /\ hp' = [hp EXCEPT ![c] = ReturnFrame("TIMEOUT", 0, 0)]
    /\ UNCHANGED <<tmVars, kernelVars, taskVars, hwVars, histVars>>
    /\ UNCHANGED <<lifeCall, bench, codec>>

\* The call returns its status to the caller.
Return(c) ==
    /\ hp[c].pc = "ret"
    /\ hp' = [hp EXCEPT ![c] = IdleFrame]
    /\ UNCHANGED <<tmVars, kernelVars, taskVars, hwVars, histVars>>
    /\ UNCHANGED <<lifeCall, bench, codec>>

(***************************************************************************)
(* The consumer task: NFCTaskManager::taskMainLoop, processCommand and     *)
(* sendResult.                                                             *)
(***************************************************************************)
\* A receive that takes the queued item of the highest priority.
ReceiveByPriority(q) ==
    CHOOSE x \in {q[i] : i \in 1..Len(q)} :
        \A i \in 1..Len(q) : x.priority >= q[i].priority

\* The item xQueueReceive takes from a non-empty queue: the oldest one.
ReceiveItem(q) == Head(q)

\* A result that reports success.
MutexTimeoutAsOk == [operation |-> "READ", status |-> "OK", errorMessage |-> ""]

\* The result processCommand returns when xSemaphoreTake fails (line 317).
MutexTimeoutResult ==
    CreateErrorResult("READ", "TIMEOUT", "Failed to acquire NFC mutex")

\* A consumer task that ends when the take fails.
AfterTakeOrExit(granted) == IF granted THEN "dispatch" ELSE "none"

\* Position of the consumer after xSemaphoreTake: in front of the switch when
\* the mutex was granted, else at the return of line 317, hence at sendResult.
AfterTake(granted) == IF granted THEN "dispatch" ELSE "send"

\* How the wait of xQueueReceive(_commandQueue, &command, maxBlockTime) ends
\* on the queue q with the task's notification value n: with a command when
\* there is one, else when the block time has elapsed.  A task blocked on a
\* queue does not wait for a notification, so vTaskNotifyGiveFromISR raises
\* n and leaves the task blocked.
WaitEnd(q, n) == IF q # <<>> THEN "command" ELSE "timeout"

\* taskMainLoop: xQueueReceive returns a command; processCommand, lines
\* 312-318: xSemaphoreTake on the NFC mutex.  granted is the kernel's answer
\* to the take; a mutex that is held is never granted.
Receive(granted) ==
    /\ pc = "receive"
    /\ WaitEnd(commandQueue, notifyCount) = "command"
    /\ granted => mutexHolder = "none"
    /\ command' = ReceiveItem(commandQueue)
    /\ commandQueue' =
         SelectSeq(commandQueue,
                   LAMBDA x : x.tag # ReceiveItem(commandQueue).tag)
    /\ dequeued' = Append(dequeued, ReceiveItem(commandQueue).tag)
    /\ mutexHolder' = IF granted THEN "consumer" ELSE mutexHolder
    /\ result' = IF granted THEN [NoResult EXCEPT !.status = "OK"]
                 ELSE MutexTimeoutResult
    /\ pc' = AfterTake(granted)
    /\ UNCHANGED <<tmVars, responseQueue, notifyCount, hp, hwVars, started,
                   accepted, fired, calls, irqBus>>
    /\ UNCHANGED <<lifeCall, bench, codec>>

\* taskMainLoop: xQueueReceive finds the queue empty for its whole block time.
ReceiveTimeout ==
    /\ pc = "receive"
    /\ WaitEnd(commandQueue, notifyCount) = "timeout"
    /\ pc' = "notify"
    /\ UNCHANGED <<tmVars, kernelVars, command, result, hp, hwVars, histVars>>
    /\ UNCHANGED <<lifeCall, bench, codec>>

\* Command kinds the switch of processCommand has a case for.
HandledCommands ==
    {"INITIALIZE", "DEINITIALIZE", "START_DETECTION", "STOP_DETECTION",
     "READ_TEXT", "WRITE_TEXT", "WRITE_URL", "WRITE_WIFI", "SET_FIELD",
     "FORMAT_TAG", "GET_STATUS"}

\* result.operation each case of the switch sets.
OperationOf(k) ==
    CASE k \in {"READ_TEXT"} -> "READ"
      [] k \in {"WRITE_TEXT", "WRITE_URL", "WRITE_WIFI"} -> "WRITE"
      [] k = "FORMAT_TAG" -> "FORMAT"
      [] OTHER -> "DETECT"

\* The switch of processCommand: the manager, reader or writer call of the
\* command kind k and the result built from it.  field is command.fieldState.
\* Yields [result, mgr, ctl, call, bus]; call tells whether a manager, reader
\* or writer call was made.
Dispatch(k, field, m, c, s, o, idOk) ==
    LET r == CASE k = "INITIALIZE" ->
                    MgrInitialize(m, c, SpiMasterInitialized, idOk,
                                  DefaultProtocol, s)
               [] k = "DEINITIALIZE" -> MgrDeinitialize(m, c, s)
               [] k = "START_DETECTION" -> MgrStartTagDetection(m, c, s)
               [] k = "STOP_DETECTION" -> MgrStopTagDetection(m, c, s)
               [] k = "READ_TEXT" -> ReaderReadText(m, c, o)
               [] k \in {"WRITE_TEXT", "WRITE_URL", "WRITE_WIFI", "FORMAT_TAG"}
                    -> WriterWrite(m, c, o)
               [] k = "SET_FIELD" -> MgrSetField(m, c, field, s)
               [] k = "GET_STATUS" ->
                    MgrResult(m, NoBus(IF m.detectionActive THEN "OK"
                                       ELSE "ERROR", c))
               [] OTHER -> MgrResult(m, NoBus("INVALID_PARAM", c))
    IN  IF k \in HandledCommands
        THEN [result |-> [operation |-> OperationOf(k), status |-> r.status,
                          errorMessage |-> ""],
              mgr |-> r.mgr, ctl |-> r.ctl, call |-> TRUE, bus |-> r.bus]
        ELSE [result |-> CreateErrorResult("READ", "INVALID_PARAM",
                                           "Unknown command"),
              mgr |-> m, ctl |-> c, call |-> FALSE, bus |-> FALSE]

\* A switch whose default case returns without giving the mutex back.
HolderAfterDefaultReturn(k) ==
    IF k \in HandledCommands THEN "none" ELSE "consumer"

\* Holder of the NFC mutex when processCommand returns after the switch on
\* command kind k: xSemaphoreGive at line 419 is on every path.
HolderAfterDispatch(k) == "none"

\* Statuses the bus master can return to a call on controller c: when the
\* controller is not initialized no exchange is made and none is returned.
BusInputs(c) == IF c.initialized THEN SPIStatus ELSE {"OK"}

\* Outcomes of the tag exchange of a call on controller c, likewise.
TagInputs(c) == IF c.initialized THEN TagOutcomes ELSE {"OK"}

\* Whether the identity register read back matches, likewise.
IdentityInputs(c) == IF c.initialized THEN BOOLEAN ELSE {TRUE}

\* processCommand, lines 320-421: the switch, then xSemaphoreGive.
ProcessCommand(s, o, idOk) ==
    /\ pc = "dispatch"
    /\ LET d == Dispatch(command.command, command.fieldState, mgr, ctl,
                         s, o, idOk)
       IN  /\ result' = d.result
           /\ mgr' = d.mgr
           /\ ctl' = d.ctl
           /\ calls' = IF d.call THEN Append(calls, mutexHolder) ELSE calls
    /\ mutexHolder' = HolderAfterDispatch(command.command)
    /\ pc' = "send"
    /\ UNCHANGED <<tmVars, commandQueue, responseQueue, notifyCount, command,
                   hp, started, accepted, dequeued, fired, irqBus>>
    /\ UNCHANGED <<lifeCall, bench, codec>>

\* A sendResult that also stores the result when a callback is set.
DeliveryAlsoStored(cb, n) ==
    IF n < ResponseQueueSize THEN "response"
    ELSE IF cb # "none" THEN "callback"
    ELSE "dropped"

\* How sendResult delivers a result: to the callback cb when it is set,
\* else to the response queue holding n items, unless that is full.
DeliveryVia(cb, n) ==
    IF cb # "none" THEN "callback"
    ELSE IF n < ResponseQueueSize THEN "response"
    ELSE "dropped"

\* Notification value after ulTaskNotifyTake(pdFALSE, 0) on the value n.
NotifyTaken(n) == IF n > 0 THEN n - 1 ELSE 0

\* taskMainLoop lines 298-303: the function of the NFC manager the loop calls
\* for a notification it has taken.  The body of "if (_nfcManager)" is empty
\* and NFCManager::handleTagDetection is private with no caller.
NotificationCall == "none"

\* What the loop does for a notification it has taken, with manager m and
\* controller c: whether the detection callback is invoked.
OnNotification(m, c, at, irq, fifoBytes, s) ==
    IF NotificationCall = "handleTagDetection"
    THEN MgrHandleTagDetection(m, c, at, irq, fifoBytes, s)
    ELSE [invoked |-> FALSE, ctl |-> c, bus |-> FALSE]

\* taskMainLoop lines 294-306 after sendResult: _commandsProcessed++, then
\* ulTaskNotifyTake(pdFALSE, 0) takes one pending notification if there is
\* one, nothing is done with it, and taskYIELD.  command and result are not
\* read again before they are overwritten.
CountProcessed ==
    /\ commandsProcessed' = commandsProcessed + 1
    /\ command' = NoCommand
    /\ result' = NoResult
    /\ calls' = <<>>
    /\ notifyCount' = NotifyTaken(notifyCount)
    /\ pc' = "receive"

\* taskMainLoop line 292, sendResult: the callback is entered, or the result
\* is sent to the response queue with no wait and the loop goes on.
SendResult ==
    /\ pc = "send"
    /\ fired' = Append(fired, command.tag)
    /\ LET via == DeliveryVia(command.callback, Len(responseQueue))
       IN  /\ responseQueue' = IF via = "response"
                               THEN Append(responseQueue, result)
                               ELSE responseQueue
           /\ IF via = "callback"
              THEN /\ pc' = "callback"
                   /\ UNCHANGED <<commandsProcessed, command, result, calls,
                                  notifyCount>>
              ELSE CountProcessed
    /\ UNCHANGED <<initialized, nfcManager, taskHandle, commandQueueH,
                   responseQueueH, nfcMutexH, nextRequestId, detectionCallback,
                   commandQueue, mutexHolder, hp, hwVars, started,
                   accepted, dequeued, irqBus>>
    /\ UNCHANGED <<lifeCall, bench, codec>>

\* The result callback returns (one that makes no scheduler call, or one
\* whose scheduler call has returned) and the loop goes on.
CallbackReturn ==
    /\ \/ pc = "callback" /\ (command.callback = "plain"
                              \/ ~CanCall("consumer"))
       \/ pc = "cbcall" /\ hp["consumer"].pc = "idle"
    /\ CountProcessed
    /\ UNCHANGED <<initialized, nfcManager, taskHandle, commandQueueH,
                   responseQueueH, nfcMutexH, nextRequestId, detectionCallback,
                   commandQueue, responseQueue, mutexHolder, hp, hwVars,
                   started, accepted, dequeued, fired, irqBus>>
    /\ UNCHANGED <<lifeCall, bench, codec>>

\* taskMainLoop lines 297-306 after xQueueReceive timed out.
NotifyTake ==
    /\ pc = "notify"
    /\ notifyCount' = NotifyTaken(notifyCount)
    /\ pc' = "receive"
    /\ UNCHANGED <<tmVars, commandQueue, responseQueue, mutexHolder, command,
                   result, hp, hwVars, histVars>>
    /\ UNCHANGED <<lifeCall, bench, codec>>

(***************************************************************************)
(* Interrupt context.                                                      *)
(***************************************************************************)
\* Notification value after vTaskNotifyGiveFromISR, given to a task handle h.
NotifyGive(h, n) ==
    IF h = "null" THEN n
    ELSE IF n < MaxNotify THEN n + 1 ELSE n

\* NFCTaskManager::HandleNFCInterrupt, reached from the EXTI line through
\* GPIOInterrupt::handleInterrupt and nfcIrqCallback.
HandleNFCInterrupt ==
    /\ notifyCount < MaxNotify
    /\ taskHandle # "null"
    /\ notifyCount' = NotifyGive(taskHandle, notifyCount)
    /\ UNCHANGED <<tmVars, commandQueue, responseQueue, mutexHolder, taskVars,
                   hp, hwVars, histVars>>
    /\ UNCHANGED <<lifeCall, bench, codec>>

\* An interrupt handler that reads the interrupt registers.
CtlHandleInterruptReading(c) ==
    AfterBus(NoBus("OK", [c EXCEPT !.interruptPending = TRUE]))

\* ST25R3911B::HandleInterrupt on controller c, up to the callback: the
\* pending flag is set; no register is read or written.
CtlHandleInterrupt(c) ==
    NoBus("OK", [c EXCEPT !.interruptPending = TRUE])

\* ST25R3911B::HandleInterrupt: the pending flag is set and the configured
\* irqCallback (nfcIrqCallback, hence HandleNFCInterrupt) is invoked.
HandleInterrupt ==
    /\ ~ctl.interruptPending \/ (taskHandle # "null" /\ notifyCount < MaxNotify)
    /\ ctl' = CtlHandleInterrupt(ctl).ctl
    /\ irqBus' = (irqBus \/ CtlHandleInterrupt(ctl).bus)
    /\ notifyCount' = NotifyGive(taskHandle, notifyCount)
    /\ UNCHANGED <<tmVars, commandQueue, responseQueue, mutexHolder, taskVars,
                   hp, mgr, started, accepted, dequeued, fired, calls>>
    /\ UNCHANGED <<lifeCall, bench, codec>>

(***************************************************************************)
(* The system.                                                             *)
(***************************************************************************)
\* One step of the consumer task, its calls from callbacks included.
ConsumerStep ==
    \/ \E granted \in BOOLEAN : Receive(granted)
    \/ ReceiveTimeout
    \/ \E s \in BusInputs(ctl), o \in TagInputs(ctl),
          idOk \in IdentityInputs(ctl) : ProcessCommand(s, o, idOk)
    \/ SendResult
    \/ \E field \in AppFields :
          HelperCall("consumer", "ReadText", "plain", field)
    \/ GenWrite("consumer")
    \/ SendCommand("consumer")
    \/ Return("consumer")
    \/ CallbackReturn
    \/ NotifyTake

\* One step of the application task.
AppStep ==
    \/ \E h \in AppHelpers, cb \in AppCallbacks \cup {"none"},
          field \in AppFields :
          HelperCall("app", h, cb, field)
    \/ \E k \in DirectCommands, prio \in DirectPriorities,
          cb \in DirectCallbacks, wait \in BOOLEAN :
            SendCommandCall(k, prio, cb, wait)
    \/ GenWrite("app")
    \/ SendCommand("app")
    \/ SendCommandResume("app")
    \/ SendCommandTimeout("app")
    \/ Return("app")
    \/ LifeReturn

Next ==
    \/ \E managerNull \in BOOLEAN, fail \in InitFailures :
          Initialize(managerNull, fail)
    \/ Deinitialize
    \/ AppStep
    \/ ConsumerStep
    \/ HandleNFCInterrupt
    \/ HandleInterrupt

Spec == Init /\ [][Next]_vars

(***************************************************************************)
(* The controller on its own: an ST25R3911B object is constructed on a bus *)
(* master and its public functions are called one after the other, as a   *)
(* test of the class does.  The chip behind the bus keeps the last value   *)
(* written to each register and gives it back on a read.                   *)
(***************************************************************************)

\* ST25R3911B::Initialize, line 64: the identity byte read names this chip.
IdentityMatches(identity) ==
    BitAnd(identity, IC_TYPE_MASK) = IC_IDENTITY_VALUE

\* The bench after a call op(arg, value) that gave the controller result r:
\* regs are the chip's registers after it, out the byte the call gave back.
AfterCall(op, arg, out, r, regs) ==
    [bench EXCEPT !.ctl = r.ctl,
                  !.regs = regs,
                  !.prev = bench.last,
                  !.last = [op |-> op, arg |-> arg, value |-> out,
                            status |-> r.status, bus |-> r.bus,
                            irq |-> FALSE, wire |-> <<>>]]

\* A call of ST25R3911B::Initialize; s is the status of its bus exchanges.
CallInitialize(s) ==
    /\ bench' = AfterCall("Initialize", 0, 0,
                          CtlInitialize(bench.ctl, bench.spiUp,
                                        IdentityMatches(
                                            bench.regs[REG_IC_IDENTITY]),
                                        DefaultProtocol, s),
                          bench.regs)
    /\ UNCHANGED <<schedVars, codec>>

\* A call of ST25R3911B::ReadRegister(reg, value): on OK the byte the chip
\* holds at reg is given back (value = rxData[1]).
CallReadRegister(reg, s) ==
    /\ LET r == ReadRegister(bench.ctl, reg, s)
       IN  bench' =
             [AfterCall("ReadRegister", reg,
                        IF r.status = "OK" THEN bench.regs[reg] ELSE 0,
                        r, bench.regs)
                EXCEPT !.last.wire = WireOf(r, <<ReadFrame(reg)>>)]
    /\ UNCHANGED <<schedVars, codec>>

\* A call of ST25R3911B::WriteRegister(reg, value): when the exchange is
\* made and succeeds the chip holds value at reg.
CallWriteRegister(reg, value, s) ==
    /\ LET r == WriteRegister(bench.ctl, reg, s)
       IN  bench' =
             [AfterCall("WriteRegister", reg, value, r,
                        IF r.bus /\ r.status = "OK"
                        THEN [bench.regs EXCEPT ![reg] = value]
                        ELSE bench.regs)
                EXCEPT !.last.wire = WireOf(r, <<WriteFrame(reg, value)>>)]
    /\ UNCHANGED <<schedVars, codec>>

\* A call of ST25R3911B::ModifyRegister(reg, mask, value) with mask 0xFF.
CallModifyRegister(reg, value, s) ==
    /\ LET r == ModifyRegister(bench.ctl, reg, s)
       IN  bench' = AfterCall("ModifyRegister", reg, value, r,
                              IF r.bus /\ r.status = "OK"
                              THEN [bench.regs EXCEPT ![reg] = value]
                              ELSE bench.regs)
    /\ UNCHANGED <<schedVars, codec>>

\* Ranges of registers: from 0x3E or from 0x40, of 0 or 3 registers.
BenchRanges == {[start |-> a, length |-> n] :
                   a \in {REG_FIFO_DATA - 1, REG_FIFO_DATA + 1}, n \in {0, 3}}

\* A call of ST25R3911B::ReadRegisters(startReg, data, length) or of
\* ST25R3911B::WriteRegisters(startReg, data) with data of length bytes.
CallRegisters(access, range, s) ==
    /\ LET r == IF access = "read"
                THEN ReadRegisters(bench.ctl, range.start, range.length, s)
                ELSE WriteRegisters(bench.ctl, range.start, range.length, s)
       IN  bench' = AfterCall(IF access = "read" THEN "ReadRegisters"
                              ELSE "WriteRegisters",
                              range.start, range.length, r, bench.regs)
    /\ UNCHANGED <<schedVars, codec>>

\* A call of ST25R3911B::ExecuteCommand(cmd).
CallExecuteCommand(cmd, s) ==
    /\ LET r == ExecuteCommand(bench.ctl, cmd, s)
       IN  bench' =
             [AfterCall("ExecuteCommand", cmd, 0, r, bench.regs)
                EXCEPT !.last.wire = WireOf(r, <<CommandFrame(cmd)>>)]
    /\ UNCHANGED <<schedVars, codec>>

\* Arguments timeoutMs of Receive, times at which the interrupt line rises
\* during a call, flags the chip shows and FIFO fill levels.
BenchTimeouts == {0, 5}

BenchArrivals == {0, 4, 5, ConfiguredTimeoutMs - 1, ConfiguredTimeoutMs}

BenchIrqFlags == {"COL", "RXE", "none"}

BenchFifoBytes == {0, 2}

\* A call of ST25R3911B::Receive(data, timeoutMs).
CallReceive(timeoutMs, at, irq, fifoBytes, s) ==
    /\ LET r == CtlReceive(bench.ctl, timeoutMs, at, irq, fifoBytes, s)
       IN  bench' =
             [AfterCall("Receive", timeoutMs, r.bytes, r, bench.regs)
                EXCEPT !.last.irq =
                    InterruptSeen(bench.ctl, ReceiveBudget(timeoutMs), at),
                       !.last.wire =
                    ReceiveRun(bench.ctl, timeoutMs, at, irq, fifoBytes,
                               FailOf(s)).wire]
    /\ UNCHANGED <<schedVars, codec>>

\* The frame of len bytes handed to Transmit: 0x93, 0x94, ...
BenchFrame(len) == [k \in 1..len |-> 146 + k]

\* A call of ST25R3911B::Transmit(data, crc) with a frame of len bytes; the
\* call's value is 1 for crc, 0 otherwise.
CallTransmit(len, crc, s) ==
    /\ LET r == TransmitRun(bench.ctl, BenchFrame(len), crc, FailOf(s))
       IN  bench' =
             [AfterCall("Transmit", len, IF crc THEN 1 ELSE 0,
                        [status |-> r.status, ctl |-> bench.ctl,
                         bus |-> r.wire # <<>>], bench.regs)
                EXCEPT !.last.wire = r.wire]
    /\ UNCHANGED <<schedVars, codec>>

\* The interrupt line rises between two calls: ST25R3911B::HandleInterrupt.
CallHandleInterrupt ==
    /\ bench' = AfterCall("HandleInterrupt", 0, 0,
                          CtlHandleInterrupt(bench.ctl), bench.regs)
    /\ UNCHANGED <<schedVars, codec>>

\* A controller is constructed on a bus master and a chip.
CtlInit ==
    /\ SchedulerInit
    /\ \E spiUp \in BOOLEAN, identity \in BenchIdentities :
          bench = FreshBench(spiUp, identity)
    /\ codec = NoCodec

CtlNext ==
    \/ \E s \in BusInputs(bench.ctl) : CallInitialize(s)
    \/ \E reg \in BenchRegisters, s \in BusInputs(bench.ctl) :
          CallReadRegister(reg, s)
    \/ \E reg \in BenchRegisters, v \in BenchValues,
          s \in BusInputs(bench.ctl) : CallWriteRegister(reg, v, s)
    \/ \E reg \in BenchRegisters, v \in BenchValues,
          s \in BusInputs(bench.ctl) : CallModifyRegister(reg, v, s)
    \/ \E cmd \in BenchCommands, s \in BusInputs(bench.ctl) :
          CallExecuteCommand(cmd, s)
    \/ \E access \in {"read", "write"}, range \in BenchRanges,
          s \in BusInputs(bench.ctl) : CallRegisters(access, range, s)
    \/ \E timeoutMs \in BenchTimeouts, at \in BenchArrivals,
          irq \in BenchIrqFlags, s \in BusInputs(bench.ctl) :
            \E fifoBytes \in (IF irq = "RXE" THEN BenchFifoBytes ELSE {0}) :
              CallReceive(timeoutMs, at, irq, fifoBytes, s)
    \/ \E len \in {0, 2}, crc \in BOOLEAN, s \in BusInputs(bench.ctl) :
          CallTransmit(len, crc, s)
    \/ CallHandleInterrupt

CtlSpec == CtlInit /\ [][CtlNext]_vars

(***************************************************************************)
(* The record codec on its own: a message is encoded by                    *)
(* TagWriter::createNDEFMessage and the bytes made are decoded by          *)
(* TagReader::parseNDEFMessage.                                            *)
(***************************************************************************)
MaxTextLen == 3

\* The strings of at most n bytes over the byte values in bytes.
StringsOver(bytes, n) == UNION {[1..k -> bytes] : k \in 0..n}

\* Texts: the strings of at most MaxTextLen bytes over "h" and "i".
CodecTexts == StringsOver({104, 105}, MaxTextLen)

\* Language codes "", "e", "en", "en-US" and one of LANG_LENGTH_MASK + 1
\* bytes.
CodecLanguages ==
    {<<>>, <<101>>, <<101, 110>>, <<101, 110, 45, 85, 83>>,
     [i \in 1..(LANG_LENGTH_MASK + 1) |-> 120]}

\* What follows the prefix of a URI: "", "a", "a.b"
CodecUriRests == {<<>>, <<97>>, <<97, 46, 98>>}

\* URI prefixes: those getURIPrefix knows, none, and "ftp://".
CodecUriPrefixes ==
    {CodedPrefixes[i] : i \in 1..Len(CodedPrefixes)}
        \cup {<<>>, <<102, 116, 112, 58, 47, 47>>}

TextRecord(text, language) ==
    [NewRecord EXCEPT !.type = "TEXT", !.payload = text,
                      !.language = language]

UriRecord(uri) == [NewRecord EXCEPT !.type = "URI", !.payload = uri]

\* The records whose payload or type string is one byte longer than a length
\* byte can count: a MIME record with a payload of 256 bytes and one with a
\* MIME type of 256 bytes.
OverlongRecords ==
    {[NewRecord EXCEPT !.type = "MIME", !.mimeType = <<97, 47, 98>>,
                       !.payload = [i \in 1..(MaxByte + 1) |-> 49]],
     [NewRecord EXCEPT !.type = "MIME", !.payload = <<49, 50>>,
                       !.mimeType = [i \in 1..(MaxByte + 1) |-> 97]]}

CodecRecords ==
    OverlongRecords
    \cup {TextRecord(text, language) :
        text \in CodecTexts, language \in CodecLanguages}
    \cup {UriRecord(prefix \o rest) :
            prefix \in CodecUriPrefixes, rest \in CodecUriRests}
    \cup {[NewRecord EXCEPT !.type = type, !.payload = <<49, 50>>,
                            !.mimeType = <<97, 47, 98>>] :
            type \in {"MIME", "WIFI", "PHONE", "EMAIL", "VCARD", "UNKNOWN"}}

\* A call of TagWriter::createNDEFMessage(records, data).
CallCreateNDEFMessage(records) ==
    /\ codec.op = "none"
    /\ LET r == createNDEFMessage(records)
       IN  codec' = [op |-> "create", records |-> records,
                     status |-> r.status, data |-> r.data, parsed |-> <<>>]
    /\ UNCHANGED <<schedVars, bench>>

\* A call of TagReader::parseNDEFMessage(data, message) on the bytes made.
CallParseNDEFMessage ==
    /\ codec.op = "create"
    /\ codec' = [codec EXCEPT !.op = "parse",
                              !.parsed = parseNDEFMessage(codec.data).records]
    /\ UNCHANGED <<schedVars, bench>>

\* The records that messages of several records are made of: a Text, a URI,
\* a MIME and a vCard record.
FramingRecords ==
    {TextRecord(<<104, 105>>, <<101, 110>>),
     UriRecord(CodedPrefixes[3] \o <<97>>),
     [NewRecord EXCEPT !.type = "MIME", !.payload = <<49, 50>>,
                       !.mimeType = <<97, 47, 98>>],
     [NewRecord EXCEPT !.type = "VCARD", !.payload = <<49>>]}

MaxRecords == 3

\* Messages of one record of any kind, and of 2 to MaxRecords records.
CodecMessages ==
    {<<record>> : record \in CodecRecords}
        \cup UNION {[1..n -> FramingRecords] : n \in 2..MaxRecords}

MaxResponseLen == 3

\* Answers to REQA: at most MaxResponseLen bytes out of 0x00, 0x04, 0x44
\* and 0xFF.
TagResponses == StringsOver({0, ATQA_MIFARE_CLASSIC, ATQA_NTAG, MaxByte},
                            MaxResponseLen)

\* A call of NFCManager::identifyTag(response, tagInfo); parsed holds the
\* TagInfo it filled.
CallIdentifyTag(response) ==
    /\ codec.op = "none"
    /\ LET r == identifyTag(response)
       IN  codec' = [op |-> "identifyTag", records |-> <<>>,
                     status |-> r.status, data |-> response,
                     parsed |-> <<r>>]
    /\ UNCHANGED <<schedVars, bench>>

\* The statuses a register access can return (ReadRegister's own
\* INVALID_PARAM and the range of convertSpiStatus).
RegisterStatuses == {convertSpiStatus(s) : s \in SPIStatus}

\* Status bytes: 0x00, 0x05, 0x5F, 0x60, 0x7F, 0x80, 0xE0, 0xFF
StatusBytes == {0, 5, FIFO_SIZE - 1, FIFO_SIZE, FIFO_COUNT_MASK,
                FIFO_OVERFLOW_BIT, 224, MaxByte}

\* What ReadRegister can return: a status and, on OK, the byte read.
RegisterReads(values) ==
    {[status |-> "OK", value |-> v] : v \in values}
        \cup {[status |-> st, value |-> 0] :
                st \in RegisterStatuses \ {"OK"}}

\* A call of ST25R3911B::GetFifoStatus(bytesInFifo, fifoFull); records holds
\* what its register reads returned, parsed what it returned.
CallGetFifoStatus(r1, r2) ==
    /\ codec.op = "none"
    /\ LET r == GetFifoStatus(r1, r2)
       IN  codec' = [op |-> "GetFifoStatus", records |-> <<r1, r2>>,
                     status |-> r.status, data |-> <<>>, parsed |-> <<r>>]
    /\ UNCHANGED <<schedVars, bench>>

\* Bytes for old contents, masks and values: 0x00, 0x0F, 0x5A, 0xA5, 0xF0,
\* 0xFF
ModifyBytes == {0, 15, 90, 165, 240, MaxByte}

\* A call of ST25R3911B::ModifyRegister(reg, mask, value): records holds
\* what its read returned, data the mask and the value, parsed the result.
CallModifyRegisterOn(rd, mask, value, wr) ==
    /\ codec.op = "none"
    /\ LET r == ModifyRegisterResult(rd, mask, value, wr)
       IN  codec' = [op |-> "ModifyRegister", records |-> <<rd>>,
                     status |-> r.status, data |-> <<mask, value>>,
                     parsed |-> <<r>>]
    /\ UNCHANGED <<schedVars, bench>>

\* The registers SetField and SetProtocol access.
ChipRegisters ==
    {REG_OP_CONTROL, REG_MODE, REG_BIT_RATE, REG_ISO14443A_NFC,
     REG_ISO14443B, REG_STREAM_MODE, REG_P2P_RX_CONF}

\* Contents of the operation-control and mode registers: 0x00, 0x5A, 0xA5
FieldBytes == {0, 90, 165}

\* Chips whose two registers hold FieldBytes and whose other registers 0.
FieldChips ==
    {[a \in ChipRegisters |->
        IF a = REG_OP_CONTROL THEN o ELSE IF a = REG_MODE THEN m ELSE 0] :
       o \in FieldBytes, m \in FieldBytes}

\* The failing exchange of a call that makes at most n exchanges.
RegisterFailures(n) ==
    {NoFail} \cup {[at |-> k, status |-> st] :
                      k \in 1..n, st \in SPIStatus \ {"OK"}}

\* The codec after a call op(arg) on a controller whose recorded state was
\* before and that gave r: records holds the states before each call, data
\* the arguments and parsed the results.
AfterChipCall(op, before, arg, r) ==
    [op |-> op, records |-> Append(codec.records, before),
     status |-> r.status, data |-> Append(codec.data, arg),
     parsed |-> Append(codec.parsed, r)]

\* A call of ST25R3911B::SetField(field): the first on a chip regs and a
\* controller that recorded fieldState, a second on what the first left.
CallSetField(fieldState, regs, field, fail) ==
    /\ \/ codec.op = "none"
       \/ codec.op = "SetField" /\ Len(codec.parsed) = 1
    /\ codec' = AfterChipCall("SetField",
                              [fieldState |-> fieldState, regs |-> regs],
                              field,
                              SetFieldRun(fieldState, regs, field, fail))
    /\ UNCHANGED <<schedVars, bench>>

\* A call of ST25R3911B::SetProtocol(protocol) on a chip regs and a
\* controller whose active protocol is currentProtocol.
CallSetProtocol(currentProtocol, regs, protocol, fail) ==
    /\ codec.op = "none"
    /\ codec' = AfterChipCall("SetProtocol",
                              [currentProtocol |-> currentProtocol,
                               regs |-> regs],
                              [protocol |-> protocol, fail |-> fail],
                              SetProtocolRun(currentProtocol, regs, protocol,
                                             fail))
    /\ UNCHANGED <<schedVars, bench>>

\* The controller the program has after it constructed one on a working
\* bus master and chip and called Initialize on it.
ProgramController ==
    CtlInitialize(NewController, TRUE, TRUE, DefaultProtocol, "OK").ctl

\* TagInfo values: every family, read-only or not (processCommand passes a
\* TagInfo it never assigned).
TagInfos ==
    {[protocol |-> p, isReadOnly |-> ro] : p \in NFCProtocol, ro \in BOOLEAN}

\* Blocks accessed: 0, 1, 4 and 0x3F.
RawBlocks == {0, 1, 4, 63}

\* A call of TagReader::ReadRawData (access = "read", of BlockSize bytes) or
\* of TagWriter::WriteRawData ("write", of length bytes) at address block
\* through the program's controller.
CallRawData(access, tagInfo, block, length, fail) ==
    /\ codec.op = "none"
    /\ access = "read" => length = BlockSize
    /\ LET data == [k \in 1..length |-> k]
           r == IF access = "read"
                THEN ReadRawData(ProgramController, tagInfo, block,
                                 BlockSize, fail)
                ELSE WriteRawData(ProgramController, tagInfo, block, data,
                                  fail)
       IN  codec' = [op |-> access,
                     records |-> <<[tagInfo |-> tagInfo, block |-> block,
                                    fail |-> fail]>>,
                     status |-> r.status, data |-> data, parsed |-> <<r>>]
    /\ UNCHANGED <<schedVars, bench>>

\* A call of NFCManager::StartTagDetection on a manager that is initialized
\* or not, with detection active or not, whose controller recorded the
\* field as off, in front of a chip regs.
CallStartTagDetection(isInitialized, active, regs, fail) ==
    /\ codec.op = "none"
    /\ LET m == [initialized |-> isInitialized, detectionActive |-> active,
                 detectionCallback |-> FALSE]
       IN  codec' = AfterChipCall("StartTagDetection",
                                  [mgr |-> m, regs |-> regs], fail,
                                  StartTagDetectionRun(m, "OFF", regs, fail))
    /\ UNCHANGED <<schedVars, bench>>

MaxBlocks == 3

\* What ST25R3911B::TransmitReceive can return other than a full answer.
ExchangeStatuses ==
    (RegisterStatuses \cup {"NOT_INITIALIZED", "COLLISION_ERROR"})

ExchangeFailures ==
    {NoFail} \cup {[at |-> k, status |-> st] :
                      k \in 1..MaxBlocks, st \in ExchangeStatuses}

\* A call of TagReader::readISO14443A(address, length, data) on a formatted
\* tag; records holds the arguments, parsed what it returned.
CallReadISO14443A(address, length, fail) ==
    /\ codec.op = "none"
    /\ LET r == readISO14443A(FormattedTag, BlockSize, address, length, fail)
       IN  codec' = [op |-> "readISO14443A",
                     records |-> <<[address |-> address, length |-> length,
                                    fail |-> fail]>>,
                     status |-> r.status, data |-> r.data, parsed |-> <<r>>]
    /\ UNCHANGED <<schedVars, bench>>

\* A call of TagWriter::writeISO14443A(address, data) on a formatted tag.
CallWriteISO14443A(address, data, fail) ==
    /\ codec.op = "none"
    /\ LET r == writeISO14443A(FormattedTag, address, data, fail)
       IN  codec' = [op |-> "writeISO14443A",
                     records |-> <<[address |-> address,
                                    length |-> Len(data), fail |-> fail]>>,
                     status |-> r.status, data |-> data, parsed |-> <<r>>]
    /\ UNCHANGED <<schedVars, bench>>

NdefNext ==
    \/ \E address \in {0, DataOffset},
          length \in {1, BlockSize, BlockSize + 1, MaxBlocks * BlockSize},
          fail \in ExchangeFailures :
            CallReadISO14443A(address, length, fail)
    \/ \E address \in {0, LengthOffset, DataOffset},
          length \in {1, PageSize, PageSize + 1, MaxBlocks * PageSize},
          fail \in ExchangeFailures :
            CallWriteISO14443A(address, [k \in 1..length |-> k], fail)
    \/ \E r1, r2 \in RegisterReads(StatusBytes) : CallGetFifoStatus(r1, r2)
    \/ \E access \in {"read", "write"}, tagInfo \in TagInfos,
          block \in RawBlocks, length \in {PageSize, BlockSize},
          fail \in ExchangeFailures :
            CallRawData(access, tagInfo, block, length, fail)
    \/ \E isInitialized \in BOOLEAN, active \in BOOLEAN, regs \in FieldChips,
          fail \in RegisterFailures(7) :
            CallStartTagDetection(isInitialized, active, regs, fail)
    \/ \E currentProtocol \in {"NFC_A", "NFC_B"}, regs \in FieldChips,
          protocol \in NFCProtocol, fail \in RegisterFailures(3) :
            CallSetProtocol(currentProtocol, regs, protocol, fail)
    \/ \E fieldState \in NFCField, regs \in FieldChips, field \in NFCField,
          fail \in RegisterFailures(4) :
            CallSetField(IF codec.op = "none" THEN fieldState
                         ELSE codec.parsed[1].fieldState,
                         IF codec.op = "none" THEN regs
                         ELSE codec.parsed[1].regs, field, fail)
    \/ \E rd \in RegisterReads(ModifyBytes), mask \in ModifyBytes,
          value \in ModifyBytes, wr \in RegisterStatuses :
            CallModifyRegisterOn(rd, mask, value, wr)
    \/ \E records \in CodecMessages : CallCreateNDEFMessage(records)
    \/ CallParseNDEFMessage
    \/ \E response \in TagResponses : CallIdentifyTag(response)

NdefSpec == Init /\ [][NdefNext]_vars

(***************************************************************************)
(* Properties.                                                             *)
(***************************************************************************)
\* The tags held by a sequence of tags.
TagsOf(seq) == {seq[i] : i \in 1..Len(seq)}

\* The tags of the commands waiting in the command queue.
QueuedTags == {commandQueue[i].tag : i \in 1..Len(commandQueue)}

\* A sequence of numbers is strictly increasing.
Increasing(seq) == \A i, j \in 1..Len(seq) : i < j => seq[i] < seq[j]

\* C1: commands accepted on an initialized scheduler are dequeued, processed
\* and have their results delivered in the order of their acceptance (tags
\* are given in that order), whatever their priority fields: the queue holds
\* them oldest first, the tags dequeued and the tags delivered only grow,
\* and what is still queued was accepted after everything dequeued.
C1_FifoOrder ==
    /\ Increasing([i \in 1..Len(commandQueue) |-> commandQueue[i].tag])
    /\ Increasing(dequeued)
    /\ Increasing(fired)
    /\ \A t \in QueuedTags, d \in TagsOf(dequeued) : d < t

\* C1 witness: two results have been delivered in order, the second to the
\* callback of a command of lower priority than the command accepted after
\* it, which still waits.
C1_Witness ==
    /\ pc = "callback"
    /\ Len(fired) >= 2
    /\ commandQueue # <<>>
    /\ Head(commandQueue).priority > command.priority
    /\ Head(commandQueue).tag > command.tag

C3_MutexOnlyInDispatch ==
    /\ mutexHolder \in {"none", "consumer"}
    /\ mutexHolder = "consumer" =>
         (pc = "dispatch" /\ hp["consumer"].pc = "idle" /\ nfcMutexH = "live")
    /\ pc \in {"none", "receive", "notify", "send", "callback", "cbcall"} =>
         mutexHolder = "none"

\* C3 witness: a callback runs after a dispatch that called the manager
\* under the mutex, and the mutex is free.
C3_Witness ==
    /\ pc = "callback"
    /\ calls = <<"consumer">>
    /\ mutexHolder = "none"

\* The step of caller c's enqueue call, from frame f to frame g, keeps to
\* the contract of SendCommand and the helpers.
EnqueueContract(f, g) ==
    /\ (f.pc = "idle" /\ g.pc = "ret") =>
         /\ ~initialized
         /\ g.ret = "NOT_INITIALIZED"
         /\ commandQueue' = commandQueue
    /\ (f.pc = "idle" /\ g.pc = "inc") =>
         (initialized /\ commandQueue' = commandQueue)
    /\ (f.pc = "send" /\ g.pc \in {"ret", "blocked"}) =>
         IF ~initialized
         THEN /\ g.pc = "ret"
              /\ g.ret = "NOT_INITIALIZED"
              /\ commandQueue' = commandQueue
         ELSE IF Len(commandQueue) < CommandQueueSize
         THEN /\ g.pc = "ret"
              /\ g.ret = "OK"
              /\ commandQueue' =
                   Append(commandQueue, [f.cmd EXCEPT !.tag = g.cmd.tag])
         ELSE /\ commandQueue' = commandQueue
              /\ IF f.wait THEN g.pc = "blocked"
                 ELSE g.pc = "ret" /\ g.ret = "TIMEOUT"
    /\ (f.pc = "blocked" /\ g.pc = "ret") =>
         \/ /\ g.ret = "OK"
            /\ Len(commandQueue) < CommandQueueSize
            /\ commandQueue' =
                 Append(commandQueue, [f.cmd EXCEPT !.tag = g.cmd.tag])
         \/ /\ g.ret = "TIMEOUT"
            /\ Len(commandQueue) = CommandQueueSize
            /\ commandQueue' = commandQueue

\* C4: SendCommand and the helpers return NOT_INITIALIZED and enqueue
\* nothing when the scheduler is not initialized; on an initialized scheduler
\* with a full command queue they return TIMEOUT and leave the queue as it
\* is (at once when the wait budget is zero, else when the queue stays full
\* for the whole budget); otherwise they return OK and the queue grows by
\* exactly their command at its tail.  The queue never grows in another way
\* and never holds more than commandQueueSize commands.
C4_EnqueueStatuses ==
    [][/\ \A c \in Callers : EnqueueContract(hp[c], hp'[c])
       /\ Len(commandQueue') > Len(commandQueue) =>
            \E c \in Callers :
                /\ hp[c].pc \in {"send", "blocked"}
                /\ hp'[c].pc = "ret"
                /\ hp'[c].ret = "OK"
                /\ Len(commandQueue') = Len(commandQueue) + 1
       /\ Len(commandQueue') <= CommandQueueSize
      ]_vars

\* C4 witness: on the initialized scheduler a call is returning TIMEOUT
\* while the command queue holds commandQueueSize commands.
C4_Witness ==
    /\ initialized
    /\ hp["app"].pc = "ret"
    /\ hp["app"].ret = "TIMEOUT"
    /\ Len(commandQueue) = CommandQueueSize

(***************************************************************************)
(* The system under fair scheduling: the consumer task, whenever it can    *)
(* take a step, eventually takes one (it is never starved by the tasks of  *)
(* equal priority and every call it makes returns).                        *)
(***************************************************************************)
FairSpec == Spec /\ WF_vars(ConsumerStep)

\* C5: a failed command does not stop the consumer: a command of a kind
\* the switch has no case for yields INVALID_PARAM unless the mutex take
\* timed out, and under fair scheduling every command waiting in the queue
\* is eventually delivered, unless the scheduler is deinitialized first.
C5_ConsumerGoesOn ==
    /\ [](pc = "send" /\ command.command \notin HandledCommands =>
            \/ result = CreateErrorResult("READ", "INVALID_PARAM",
                                          "Unknown command")
            \/ result = MutexTimeoutResult)
    /\ \A t \in 1..MaxCalls :
         (t \in QueuedTags) ~> (t \in TagsOf(fired) \/ ~initialized)

\* C5 witness: the result of a command that failed on the mutex take was
\* stored, and the consumer holds the INVALID_PARAM result of a later command
\* of unknown kind.
C5_Witness ==
    /\ pc = "send"
    /\ result.status = "INVALID_PARAM"
    /\ responseQueue # <<>>
    /\ Head(responseQueue) = MutexTimeoutResult

\* C6: no command is cancelled: every accepted command waits in the queue,
\* is the command the consumer has in hand, or has had its result
\* delivered.
C6_NoCancellation ==
    \A t \in 1..accepted :
        \/ t \in QueuedTags
        \/ t \in TagsOf(fired)
        \/ pc \in {"dispatch", "send"} /\ command.tag = t

\* The helper-built commands in existence, each as <<who holds it, request
\* id>>: accepted ones by their tag, one not yet sent by its caller (app -1,
\* consumer -2).
BuiltIds ==
    {<<commandQueue[i].tag, commandQueue[i].requestId>> :
        i \in 1..Len(commandQueue)}
    \cup (IF pc \in {"dispatch", "send", "callback", "cbcall"}
          THEN {<<command.tag, command.requestId>>} ELSE {})
    \cup (IF hp["app"].pc \in {"send", "blocked"}
          THEN {<<-1, hp["app"].cmd.requestId>>} ELSE {})
    \cup (IF hp["consumer"].pc \in {"send", "blocked"}
          THEN {<<-2, hp["consumer"].cmd.requestId>>} ELSE {})

\* C7: the request ids the helpers generate start at 1 and no two commands
\* built by helpers carry the same one (0 is the id of a command no helper
\* built).
C7_UniqueRequestIds ==
    /\ nextRequestId >= FirstRequestId
    /\ \A a, b \in BuiltIds :
         (a # b /\ a[2] # 0) => a[2] # b[2]

\* C8: when the take of the NFC mutex fails for the command just dequeued,
\* its result has status TIMEOUT and an error message, no manager, reader,
\* writer or controller call is made for it (manager and controller are as
\* they were up to the delivery), the mutex is neither taken nor given, and
\* the next step of the consumer delivers that result and goes on to the
\* callback or to the next receive.
C8_MutexTimeout ==
    [][/\ (pc = "receive" /\ pc' = "send") =>
            /\ result'.status = "TIMEOUT"
            /\ result'.errorMessage # ""
            /\ calls' = <<>>
            /\ mutexHolder' = mutexHolder
            /\ mutexHolder' # "consumer"
            /\ UNCHANGED <<mgr, ctl>>
       /\ (pc = "receive" /\ pc' = "dispatch") => mutexHolder' = "consumer"
       /\ (/\ pc = "send"
           /\ result = MutexTimeoutResult
           /\ pc' \notin {"send", "none"}) =>
            /\ pc' \in {"callback", "receive"}
            /\ fired' = Append(fired, command.tag)
            /\ calls = <<>>
            /\ mutexHolder' = mutexHolder
            /\ UNCHANGED mgr
      ]_vars

\* C8 witness: the TIMEOUT result of a command whose mutex take failed was
\* delivered to the response queue, and the consumer has taken the mutex for
\* the next command.
C8_Witness ==
    /\ pc = "dispatch"
    /\ responseQueue # <<>>
    /\ Head(responseQueue).status = "TIMEOUT"
    /\ Head(responseQueue).errorMessage # ""
    /\ Len(fired) >= 1

\* Command kinds the helpers build.
HelperKinds == {HelperCommand[h] : h \in Helpers}

\* Caller c is inside a helper, its command built or being built.
InHelper(c) ==
    /\ hp[c].pc \in {"inc", "send", "blocked"}
    /\ hp[c].cmd.command \in HelperKinds

\* No helper waits on the queue, and every manager, reader or writer call is
\* made by the consumer task, for the command it has in hand, while it holds
\* the NFC mutex.
NoWaitNoCallerHardware ==
    /\ \A c \in Callers : InHelper(c) => (~hp[c].wait /\ hp[c].pc # "blocked")
    /\ \A i \in 1..Len(calls) : calls[i] = "consumer"
    /\ calls # <<>> =>
         (pc \in {"send", "callback", "cbcall"}
          /\ command.command \in HandledCommands)

\* The result of the command with tag t exists: the consumer has it in hand
\* or has delivered it.
ResultExists(t) ==
    \/ t \in TagsOf(fired)
    \/ pc = "send" /\ command.tag = t

\* C9 as stated: no helper waits, no caller's task touches the hardware, and
\* a helper that enqueued its command returns before the command's result
\* exists.
C9_ReturnsBeforeResult ==
    /\ NoWaitNoCallerHardware
    /\ \A c \in Callers :
         (hp[c].pc = "ret" /\ hp[c].ret = "OK" /\ hp[c].cmd.requestId # 0)
             => ~ResultExists(hp[c].cmd.tag)

\* C9, amended: no helper waits on the queue (a helper whose command cannot
\* be enqueued at once is turned away with TIMEOUT), and every manager,
\* reader or writer call is made by the consumer task under the NFC mutex;
\* nothing is said on whether the result exists when the helper returns.
C9_HelpersDoNotWait ==
    /\ NoWaitNoCallerHardware
    /\ \A c \in Callers : hp[c].pc = "blocked" => hp[c].cmd.requestId = 0

\* C9 witness: a helper is returning OK while its command still waits in
\* the queue behind the command the consumer is dispatching under the mutex.
C9_Witness ==
    /\ hp["app"].pc = "ret"
    /\ hp["app"].ret = "OK"
    /\ hp["app"].cmd.requestId # 0
    /\ hp["app"].cmd.tag \in QueuedTags
    /\ pc = "send"
    /\ calls = <<"consumer">>

\* A step made in interrupt context: the pending flag of the controller
\* is raised or the consumer task is notified.
IrqStep ==
    \/ ctl'.interruptPending /\ ~ctl.interruptPending
    \/ notifyCount' > notifyCount

\* C10: no bus transaction is made in interrupt context: a step in
\* interrupt context changes nothing but the controller's pending flag and
\* the consumer task's notification value.
C10_IrqIsMinimal ==
    [][/\ ~irqBus'
       /\ IrqStep =>
            /\ UNCHANGED <<tmVars, commandQueue, responseQueue, mutexHolder,
                           taskVars, hp, mgr, started, accepted, dequeued,
                           fired, calls>>
            /\ ctl' = [ctl EXCEPT !.interruptPending = ctl'.interruptPending]
            /\ notifyCount' \in {notifyCount, notifyCount + 1}
      ]_vars

\* C10 witness: the controller's interrupt handler has run with a consumer
\* task to notify: the flag is up and a notification is pending.
C10_Witness ==
    /\ ctl.interruptPending
    /\ notifyCount > 0
    /\ taskHandle = "live"

\* C11: a notification given while the consumer is blocked in its wait on
\* the empty command queue ends that wait: the consumer never leaves the
\* wait by its timeout with the queue still empty while a notification is
\* pending.
C11_NotifyWakesWait ==
    [][(/\ pc = "receive"
        /\ pc' = "notify"
        /\ commandQueue = <<>>
        /\ notifyCount > 0)
          => WaitEnd(commandQueue, notifyCount) # "timeout"]_vars

\* The handles of the scheduler's kernel objects.
Handles ==
    [commandQueue |-> commandQueueH, responseQueue |-> responseQueueH,
     mutex |-> nfcMutexH, task |-> taskHandle]

\* A step in which the application task's call of op runs to its return.
LifeStep(op) == lifeCall = NoLifeCall /\ lifeCall'.op = op

\* Nothing of the scheduler, its kernel objects, its task, its callers or
\* the hardware changes.
SchedulerUnchanged == UNCHANGED <<tmVars, kernelVars, taskVars, hp, hwVars>>

\* C12: the scheduler is Uninitialized (no task, queue or mutex exists) or
\* Initialized (all four exist and the task runs).  Initialize on an
\* initialized scheduler or with a null manager returns ERROR and changes
\* nothing; Deinitialize on an uninitialized one returns OK and changes
\* nothing; Deinitialize on an initialized one returns OK, stops the task
\* and deletes queues and mutex; on the uninitialized scheduler an enqueue
\* call returns NOT_INITIALIZED, and an Initialize with a manager whose
\* creations all succeed returns OK and makes the scheduler Initialized.
C12_TwoStates ==
    /\ [](IF initialized
          THEN /\ \A o \in DOMAIN Handles : Handles[o] = "live"
               /\ pc # "none"
          ELSE /\ \A o \in DOMAIN Handles : Handles[o] \in {"null", "dangling"}
               /\ taskHandle = "null"
               /\ pc = "none"
               /\ commandQueue = <<>> /\ responseQueue = <<>>
               /\ mutexHolder = "none")
    /\ [][/\ (LifeStep("Initialize")
               /\ (initialized \/ lifeCall'.managerNull)) =>
               (lifeCall'.status = "ERROR" /\ SchedulerUnchanged)
          /\ (LifeStep("Initialize") /\ ~initialized
               /\ ~lifeCall'.managerNull /\ lifeCall'.fail = "none") =>
               (lifeCall'.status = "OK" /\ initialized' /\ pc' = "receive")
          /\ (LifeStep("Deinitialize") /\ ~initialized) =>
               (lifeCall'.status = "OK" /\ SchedulerUnchanged)
          /\ (LifeStep("Deinitialize") /\ initialized) =>
               /\ lifeCall'.status = "OK"
               /\ ~initialized'
               /\ pc' = "none"
               /\ \A o \in DOMAIN Handles : Handles'[o] = "null"
          /\ \A c \in Callers :
               ((~initialized /\ hp'[c] # hp[c] /\ hp'[c].pc \in {"ret", "inc"})
                   => hp'[c] = ReturnFrame("NOT_INITIALIZED", 0, 0))
          /\ (initialized' # initialized) =>
               (LifeStep("Initialize") \/ LifeStep("Deinitialize"))
          ]_vars

\* C12 witness: Initialize is returning OK on a scheduler that accepted
\* commands before, in an earlier life that a Deinitialize ended.
C12_Witness ==
    /\ lifeCall.op = "Initialize"
    /\ lifeCall.status = "OK"
    /\ initialized
    /\ accepted > 0

\* C13: when the creation of the command queue, the response queue, the
\* mutex or the task fails in Initialize, Initialize returns ERROR, every
\* object created before in that call has been deleted, none is left alive
\* and none is deleted that the call did not create, no consumer task runs
\* and the scheduler is Uninitialized.
C13_InitializeReleases ==
    [][(LifeStep("Initialize") /\ lifeCall'.fail # "none") =>
          /\ lifeCall'.status = "ERROR"
          /\ ~initialized'
          /\ pc' = "none"
          /\ taskHandle' = "null"
          /\ \A o \in DOMAIN Handles :
                /\ Handles'[o] \notin {"live", "freedTwice"}
                /\ (o \in CreatedBefore(lifeCall'.fail) =>
                      Handles'[o] = "dangling")
      ]_vars

\* C13 witness: Initialize is returning ERROR because the task could not be
\* created, the two queues and the mutex created before deleted again.
C13_Witness ==
    /\ lifeCall.op = "Initialize"
    /\ lifeCall.status = "ERROR"
    /\ lifeCall.fail = "task"
    /\ ~initialized
    /\ commandQueueH = "dangling"
    /\ responseQueueH = "dangling"
    /\ nfcMutexH = "dangling"

\* C14: Initialize called on an uninitialized controller whose bus master
\* is initialized, every bus exchange succeeding, makes its bus exchanges
\* and returns OK with the controller initialized when the identity byte
\* masked with 0x1F is 0x09, and returns ERROR with the controller left
\* uninitialized when it is not.
C14_InitializeSucceeds ==
    (/\ bench.last.op = "Initialize"
     /\ bench.spiUp
     /\ bench.prev.op = "none") =>
        /\ bench.last.bus
        /\ IF IdentityMatches(bench.regs[REG_IC_IDENTITY])
           THEN bench.last.status = "OK" /\ bench.ctl.initialized
           ELSE bench.last.status = "ERROR" /\ ~bench.ctl.initialized

\* The controller of the bench with its _initialized flag set or cleared.
BenchControllers ==
    {[bench.ctl EXCEPT !.initialized = b] : b \in BOOLEAN}

\* C15: ReadRegister, WriteRegister and ModifyRegister with an address above
\* 0x3F, and ExecuteCommand with a command byte below 0xC0, return
\* INVALID_PARAM and make no bus exchange: the calls made on the controller
\* did so, and the functions do so whether or not the controller's
\* _initialized flag is set and whatever the bus would have answered.
C15_InvalidNoBus ==
    /\ (bench.last.op \in {"ReadRegister", "WriteRegister", "ModifyRegister"}
         /\ bench.last.arg > 63) =>
            (bench.last.status = "INVALID_PARAM" /\ ~bench.last.bus)
    /\ (bench.last.op = "ExecuteCommand" /\ bench.last.arg < 192) =>
            (bench.last.status = "INVALID_PARAM" /\ ~bench.last.bus)
    /\ \A c \in BenchControllers, s \in SPIStatus :
         /\ \A reg \in {r \in BenchRegisters : r > 63} :
              /\ ReadRegister(c, reg, s) = NoBus("INVALID_PARAM", c)
              /\ WriteRegister(c, reg, s) = NoBus("INVALID_PARAM", c)
              /\ ModifyRegister(c, reg, s) = NoBus("INVALID_PARAM", c)
         /\ \A cmd \in {k \in BenchCommands : k < 192} :
              ExecuteCommand(c, cmd, s) = NoBus("INVALID_PARAM", c)

\* C15 witness: WriteRegister was called with address 0x40 right after
\* ExecuteCommand with command byte 0xBF, and both were turned away.
C15_Witness ==
    /\ bench.last.op = "WriteRegister"
    /\ bench.last.arg = 64
    /\ bench.last.status = "INVALID_PARAM"
    /\ ~bench.last.bus
    /\ bench.prev.op = "ExecuteCommand"
    /\ bench.prev.arg = 191
    /\ bench.prev.status = "INVALID_PARAM"

\* C16: on a working bus master and a chip that gives back the last value
\* written per address, WriteRegister(a, v) followed by ReadRegister(a), a in 0x00..0x3F, returns
\* OK with the value v, and the chip holds v at a.
C16_WriteThenRead ==
    (/\ bench.spiUp
     /\ bench.prev.op = "WriteRegister"
     /\ bench.last.op = "ReadRegister"
     /\ bench.last.arg = bench.prev.arg
     /\ bench.last.arg <= 63) =>
        /\ bench.prev.status = "OK"
        /\ bench.last.status = "OK"
        /\ bench.last.value = bench.prev.value
        /\ bench.regs[bench.last.arg] = bench.prev.value

C19_TextRoundTrip ==
    (/\ codec.op = "parse"
     /\ Len(codec.records) = 1
     /\ codec.records[1].type = "TEXT"
     /\ 1 + Len(codec.records[1].language) + Len(codec.records[1].payload)
            <= MaxByte) =>
        /\ codec.status = "OK"
        /\ Len(codec.parsed) = 1
        /\ codec.parsed[1].type = "TEXT"
        /\ codec.parsed[1].payload = codec.records[1].payload
        /\ codec.parsed[1].language = codec.records[1].language

\* C20: a message of one URI record whose URI starts with a prefix that
\* getURIPrefix gives a code to, encoded and then decoded, yields one URI
\* record whose payload is the original URI; the bytes stored after the
\* prefix code are the URI without that prefix.
C20_UriRoundTrip ==
    (/\ codec.op = "parse"
     /\ Len(codec.records) = 1
     /\ codec.records[1].type = "URI"
     /\ getURIPrefix(codec.records[1].payload) # 0) =>
        LET uri == codec.records[1].payload
            code == getURIPrefix(uri)
        IN  /\ codec.status = "OK"
            /\ Len(codec.parsed) = 1
            /\ codec.parsed[1].type = "URI"
            /\ codec.parsed[1].payload = uri
            /\ codec.parsed[1].rawData =
                  <<code>> \o SubstrFrom(uri, Len(CodedPrefixes[code]))

\* The position in the message bytes of the flag byte of record i: the
\* records before it take the bytes createNDEFRecord made for them.
RECURSIVE FlagAt(_, _)
FlagAt(records, i) ==
    IF i = 1 THEN 1
    ELSE FlagAt(records, i - 1) + Len(createNDEFRecord(records[i - 1]).data)

\* C21: in the bytes createNDEFMessage makes of a non-empty sequence of
\* encodable records, the flag byte of a record has the message-begin bit
\* 0x80 exactly when it is the first record and the message-end bit 0x40
\* exactly when it is the last one.
C21_BeginEndFlags ==
    (/\ codec.op \in {"create", "parse"}
     /\ codec.status = "OK"
     /\ codec.records # <<>>) =>
        \A i \in 1..Len(codec.records) :
            LET flags == codec.data[FlagAt(codec.records, i)]
            IN  /\ (BitAnd(flags, FLAG_MB) # 0) <=> (i = 1)
                /\ (BitAnd(flags, FLAG_ME) # 0) <=> (i = Len(codec.records))

\* C21 witness: a message of three records was encoded; its first flag byte
\* carries only the begin bit and its last only the end bit.
C21_Witness ==
    /\ codec.op = "create"
    /\ codec.status = "OK"
    /\ Len(codec.records) = 3
    /\ BitAnd(codec.data[1], FLAG_MB + FLAG_ME) = FLAG_MB
    /\ BitAnd(codec.data[FlagAt(codec.records, 3)], FLAG_MB + FLAG_ME)
          = FLAG_ME

C23_IdentifyTag ==
    codec.op = "identifyTag" =>
        LET info == codec.parsed[1]
            indicator == codec.data[1] + 256 * codec.data[2]
        IN  IF Len(codec.data) < 2 THEN codec.status = "ERROR"
            ELSE /\ codec.status = "OK"
                 /\ indicator = 4 =>
                      info.protocol = "MIFARE_CLASSIC" /\ info.dataSize = 1024
                 /\ indicator = 68 =>
                      info.protocol = "NFC_A" /\ info.dataSize = 8192
                 /\ indicator \notin {4, 68} =>
                      info.protocol = "NFC_A" /\ info.dataSize = 2048

\* C23 witness: the response 04 00 FF was classified as MIFARE_CLASSIC.
C23_Witness ==
    /\ codec.op = "identifyTag"
    /\ codec.data = <<4, 0, 255>>
    /\ codec.status = "OK"
    /\ codec.parsed[1].protocol = "MIFARE_CLASSIC"
    /\ codec.parsed[1].dataSize = 1024

\* C24: GetFifoStatus returns the status of the first status-register read
\* that fails; when both succeed it returns OK, the byte count is the low 7
\* bits of status 1 plus 0x80 when bit 7 of status 2 is set ((0x7F,0x80)
\* gives 0xFF, (0x05,0x00) gives 0x05), and the full flag is set exactly
\* when the count is at least 96.
C24_FifoCount ==
    codec.op = "GetFifoStatus" =>
        LET r1 == codec.records[1]
            r2 == codec.records[2]
            out == codec.parsed[1]
            count == (r1.value % 128) + (IF r2.value >= 128 THEN 128 ELSE 0)
        IN  /\ r1.status # "OK" => codec.status = r1.status /\ ~out.set
            /\ (r1.status = "OK" /\ r2.status # "OK") =>
                  codec.status = r2.status /\ ~out.set
            /\ (r1.status = "OK" /\ r2.status = "OK") =>
                  /\ codec.status = "OK"
                  /\ out.set
                  /\ out.bytesInFifo = count
                  /\ out.fifoFull <=> (count >= 96)
                  /\ (r1.value = 127 /\ r2.value = 128) =>
                        out.bytesInFifo = 255
                  /\ (r1.value = 5 /\ r2.value = 0) => out.bytesInFifo = 5

\* C24 witness: the status bytes 0x7F and 0x80 were read and gave the count
\* 0xFF with the full flag set.
C24_Witness ==
    /\ codec.op = "GetFifoStatus"
    /\ codec.status = "OK"
    /\ codec.records[1].value = 127
    /\ codec.records[2].value = 128
    /\ codec.parsed[1].bytesInFifo = 255
    /\ codec.parsed[1].fifoFull

\* The number of block commands an operation on length bytes needs.
BlocksNeeded(length, size) == (length + size - 1) \div size

C27_OneTransaction ==
    bench.spiUp =>
        /\ (bench.last.op = "ReadRegister" /\ bench.last.arg <= 63) =>
              bench.last.wire =
                 <<[select |-> TRUE, bytes |-> <<bench.last.arg + 64, 0>>,
                    deselect |-> TRUE]>>
        /\ (bench.last.op = "WriteRegister" /\ bench.last.arg <= 63) =>
              bench.last.wire =
                 <<[select |-> TRUE,
                    bytes |-> <<bench.last.arg, bench.last.value>>,
                    deselect |-> TRUE]>>
        /\ (bench.last.op = "ExecuteCommand" /\ bench.last.arg >= 192) =>
              bench.last.wire =
                 <<[select |-> TRUE, bytes |-> <<bench.last.arg>>,
                    deselect |-> TRUE]>>

\* C28: on a working bus master, a Receive that observes an interrupt reads
\* the three interrupt-status registers first and returns COLLISION_ERROR,
\* OK or TIMEOUT according to the flags it finds there.
C28_ReceiveAfterInterrupt ==
    (/\ bench.last.op = "Receive"
     /\ bench.last.irq
     /\ bench.spiUp) =>
        /\ Len(bench.last.wire) >= 3
        /\ SubSeq(bench.last.wire, 1, 3) =
              <<ReadFrame(54), ReadFrame(55), ReadFrame(56)>>
        /\ bench.last.status \in {"COLLISION_ERROR", "OK", "TIMEOUT"}

\* C29: on a working bus master, Transmit of a non-empty frame makes, in
\* this order, the clear-FIFO command 0xC2, one write of the FIFO-load
\* register 0x3E per frame byte, and the command 0xC4 (with CRC) or 0xC5
\* (without), and returns OK; an empty frame is rejected with INVALID_PARAM
\* without a transaction.
C29_TransmitSequence ==
    (bench.last.op = "Transmit" /\ bench.spiUp) =>
        IF bench.last.arg = 0
        THEN bench.last.status = "INVALID_PARAM" /\ bench.last.wire = <<>>
        ELSE /\ bench.last.status = "OK"
             /\ bench.last.wire =
                  <<CommandFrame(194)>>
                    \o [k \in 1..bench.last.arg |->
                           WriteFrame(62, BenchFrame(bench.last.arg)[k])]
                    \o <<CommandFrame(IF bench.last.value = 1 THEN 196
                                      ELSE 197)>>

\* Bit b of the byte n.
BitOf(n, b) == (n \div (2 ^ b)) % 2

\* C30: ModifyRegister writes only after a successful read, returning the
\* write's status, and the byte it writes has, at every bit position, the bit
\* of value where mask has a 1 and the bit read from the register where mask
\* has a 0; when the read fails no write is made and the read's status is
\* returned.
C30_ModifyRegister ==
    codec.op = "ModifyRegister" =>
        LET rd == codec.records[1]
            mask == codec.data[1]
            value == codec.data[2]
            r == codec.parsed[1]
        IN  IF rd.status # "OK"
            THEN ~r.wrote /\ r.status = rd.status
            ELSE /\ r.wrote
                 /\ r.written \in 0..MaxByte
                 /\ \A b \in 0..7 :
                       BitOf(r.written, b) =
                          IF BitOf(mask, b) = 1 THEN BitOf(value, b)
                          ELSE BitOf(rd.value, b)

\* A register holding 0x5A modified with mask 0x0F and value 0xA5 is written
\* 0x55, and a modification whose read failed.
C30_Witness ==
    /\ codec.op = "ModifyRegister"
    /\ \/ /\ codec.records[1] = [status |-> "OK", value |-> 90]
          /\ codec.data = <<15, 165>>
          /\ codec.parsed[1].written = 85
       \/ /\ codec.records[1].status = "TIMEOUT"
          /\ ~codec.parsed[1].wrote

\* The bits of a byte other than those of mask.
OutsideMask(byte, mask) == BitAnd(byte, MaxByte - mask)

FrameRegister(frame) == frame.bytes[1] % 64

C33_AuthenticateFirst ==
    codec.op \in {"read", "write"} =>
        LET call == codec.records[1]
            r == codec.parsed[1]
            code == IF codec.op = "read" THEN 48 ELSE 160
        IN  /\ (/\ call.tagInfo.protocol = "MIFARE_CLASSIC"
                /\ ~call.tagInfo.isReadOnly
                /\ Len(codec.data) = 16) =>
                  /\ Len(r.wire) >= 1
                  /\ r.wire[1] =
                        <<96, call.block, 255, 255, 255, 255, 255, 255>>
                  /\ IF call.fail.at = 1 /\ call.fail.status # "OK"
                     THEN Len(r.wire) = 1 /\ r.status = call.fail.status
                     ELSE /\ Len(r.wire) = 2
                          /\ SubSeq(r.wire[2], 1, 2) = <<code, call.block>>
            /\ call.tagInfo.protocol \notin {"NFC_A", "MIFARE_CLASSIC"} =>
                  (call.tagInfo.isReadOnly /\ codec.op = "write")
                     \/ (r.status = "UNSUPPORTED_TAG" /\ r.wire = <<>>)

\* C34: a result callback runs on the consumer task with the NFC mutex
\* released, and the helper it calls never blocks on the command queue: it
\* returns OK, or TIMEOUT when the queue is full.
C34_CallbackCallsHelper ==
    /\ pc \in {"callback", "cbcall"} => mutexHolder = "none"
    /\ hp["consumer"].pc # "blocked"
    /\ hp["consumer"].pc = "ret" => hp["consumer"].ret \in {"OK", "TIMEOUT"}

\* The helper called from a callback returns TIMEOUT on the full queue.
C34_Witness ==
    /\ pc = "cbcall"
    /\ hp["consumer"].pc = "ret"
    /\ hp["consumer"].ret = "TIMEOUT"
    /\ Len(commandQueue) = CommandQueueSize

C38_UninitializedHandlesNull ==
    ~initialized =>
        /\ taskHandle = "null"
        /\ commandQueueH = "null"
        /\ responseQueueH = "null"
        /\ nfcMutexH = "null"

\* C39: in a record produced by createNDEFRecord the type-length byte is the
\* number of type bytes that follow it and the payload-length byte is the
\* number of payload bytes that follow, whatever their lengths; no length is
\* reduced modulo 256.
C39_LengthBytesCount ==
    (codec.op = "create" /\ Len(codec.records) = 1 /\ codec.status = "OK") =>
        LET rec == codec.records[1]
        IN  /\ codec.data[2] = Len(RecordTypeString(rec))
            /\ codec.data[3] = Len(RecordPayload(rec))
            /\ Len(codec.data) = 3 + codec.data[2] + codec.data[3]

====
